---- MODULE Spec2Model ----
(***************************************************************************)
(* A model of the file system utilities (file_system_utilities.c) of       *)
(* zephyr_lib: the path normalizer fsu_simplify_path, the mount gate       *)
(* fsu_lfs_mount, the directory enumerator fsu_find, the single-file       *)
(* operations, the digest engine and the directory lifecycle operations.   *)
(*                                                                         *)
(* C strings are sequences of one-character strings; a char buffer is a    *)
(* function from 0-based indices to characters, NUL being the terminator.  *)
(* Error returns are the negative errno values the code returns.           *)
(***************************************************************************)
EXTENDS Integers, Sequences, FiniteSets, TLC

VARIABLES
    simplify,   \* fsu_simplify_path: its arguments, locals and position
    mount,      \* fsu_lfs_mount: lfs_mounted, lfs_init_mutex and the callers
    fs,         \* the storage namespace: path -> [type, data]
    op,         \* the file system utility call in progress: arguments, locals, position
    prev,       \* the call that returned last (its arguments and results)
    script,     \* the calls the caller still makes, in order
    config,     \* the build configuration (Kconfig options)
    led         \* lcz_led.c: the LED, its timer and work item, and the contexts using them

vars == <<simplify, mount, fs, op, prev, script, config, led>>

\* what the actions of each component leave alone
pathOthers == <<mount, fs, op, prev, script, config, led>>
mountOthers == <<simplify, fs, op, prev, script, config, led>>
fsOthers == <<simplify, mount, led>>
ledOthers == <<simplify, mount, fs, op, prev, script, config>>

(***************************************************************************)
(* errno values used by the code                                           *)
(***************************************************************************)
EPERM == 1
ENOENT == 2
EIO == 5
ENOMEM == 12
ENOTDIR == 20
EISDIR == 21
EINVAL == 22
ENOSPC == 28
EEXIST == 17
ENOSYS == 88
ENOTEMPTY == 90
EBUSY == 16
ENOLCK == 46

NUL == ""
NULL == <<"NULL">>

(***************************************************************************)
(* Bounds of the model                                                     *)
(***************************************************************************)
\* CONFIG_FSU_MAX_PATH_SIZE + CONFIG_FSU_MAX_FILE_NAME_SIZE - 1, scaled down
FSU_MAX_ABS_PATH_SIZE == 14
\* every input path over PathAlphabet up to this length is enumerated
MaxInLen == 6
\* concurrent callers of fsu_lfs_mount and the calls each of them makes
NumThreads == 2
MaxMountCalls == 2
\* bytes a file or a write holds at most
MaxFileLen == 2
\* storage and allocation failures injected into one call
MaxFaults == 2
\* the largest buffer fsu_build_full_name is called with on its own
MaxJoinSize == 6
\* the greatest finite repeat_count of a blink pattern, and the LED API calls made
MaxRepeat == 2
MaxLedCalls == 2
\* the switches of the LED that are counted: more than any finite pattern makes
MaxSwitches == 2 * MaxRepeat + 4
\* CONFIG_FSU_HASH_CHUNK_SIZE and CONFIG_FSU_CHECKSUM_CHUNK_SIZE: the bytes read at a time
CONFIG_FSU_HASH_CHUNK_SIZE == 1
CONFIG_FSU_CHECKSUM_CHUNK_SIZE == 1

(***************************************************************************)
(* C strings                                                               *)
(***************************************************************************)
RECURSIVE StrLenFrom(_, _, _)
StrLenFrom(buf, n, size) ==
    IF n >= size \/ buf[n] = NUL THEN n ELSE StrLenFrom(buf, n + 1, size)

\* strlen of the string held in a buffer of `size` bytes
BufStrLen(buf, size) == StrLenFrom(buf, 0, size)

\* the C string a buffer of `size` bytes holds: the characters before the first NUL
CStr(buf, size) == [n \in 1..BufStrLen(buf, size) |-> buf[n - 1]]

\* memset(buf, 0, size)
ZeroBuf(size) == [n \in 0..(size - 1) |-> NUL]

(***************************************************************************)
(* Path normalizer: fsu_simplify_path                                      *)
(***************************************************************************)
PathAlphabet == {"/", ".", "a"}

EnumeratedPaths == UNION {[1..n -> PathAlphabet] : n \in 0..MaxInLen}

ExamplePaths ==
    { <<"/", "a", "/", "/", "b", "/", ".", "/", "c", "/", ".", ".", "/", "d">>,
      <<"/", "a", "/", ".", ".", "/", "b">>,
      <<"/", ".", ".", "/", "b">>,
      <<"/", "a", "/", "b", "/", "c">>,
      <<"/", "a", "/", "b", "/", ".", ".">> }

\* inputs longer than the output buffer admits
LongPaths ==
    { [n \in 1..(FSU_MAX_ABS_PATH_SIZE + 1) |-> "a"],
      [n \in 1..(FSU_MAX_ABS_PATH_SIZE + 2) |-> IF n % 2 = 1 THEN "/" ELSE "a"] }

\* the longest input the output buffer admits: "/a/a/..." of FSU_MAX_ABS_PATH_SIZE characters
FullLengthPath == [n \in 1..FSU_MAX_ABS_PATH_SIZE |-> IF n % 2 = 1 THEN "/" ELSE "a"]

SimplifyInputs == EnumeratedPaths \cup ExamplePaths \cup LongPaths \cup {FullLengthPath}

RECURSIVE ScanBack(_, _)
\* while (k >= 0 && path_out[k] != '/') k--;
ScanBack(out, k) ==
    IF k >= 0 /\ out[k] # "/" THEN ScanBack(out, k - 1) ELSE k

PrevSlashFromSegment(out, j) == ScanBack(out, j - 4)

PrevSlashStopsAtStart(out, j) == IF ScanBack(out, j - 5) < 0 THEN 0 ELSE ScanBack(out, j - 5)

\* k = j - 5; scan backwards to find the previous slash
PrevSlash(out, j) == ScanBack(out, j - 5)

\* the last four written characters are "/../"
EndsDotDot(out, j) ==
    j >= 4 /\ out[j - 4] = "/" /\ out[j - 3] = "." /\ out[j - 2] = "." /\ out[j - 1] = "/"

\* the last three written characters are "/./"
EndsDot(out, j) ==
    j >= 3 /\ out[j - 3] = "/" /\ out[j - 2] = "." /\ out[j - 1] = "/"

CopiesAll(s, c) == TRUE

CopiesAfterTwoSlashes(s, c) ==
    s.i = 0 \/ c # "/" \/ s.path_in[s.i] # "/" \/ (s.i >= 2 /\ s.path_in[s.i - 1] = "/")

\* Don't allow duplicate (back-to-back) slashes
Copies(s, c) == s.i = 0 \/ c # "/" \/ s.path_in[s.i] # "/"

TooLongAtLimit(len) == len >= FSU_MAX_ABS_PATH_SIZE

\* Make sure that the input isn't too long for our output buffer
TooLong(len) == len > FSU_MAX_ABS_PATH_SIZE

InvalidInputPathOnly(p_in, out_null) == p_in = NULL

\* if (path_in == NULL || path_out == NULL) return -EINVAL;
InvalidInput(p_in, out_null) == p_in = NULL \/ out_null

\* the state of fsu_simplify_path on entry to its loop, or at its early return
SimplifyEnter(p_in, out_null) ==
    LET base == [path_in |-> p_in, out_null |-> out_null,
                 path_out |-> ZeroBuf(FSU_MAX_ABS_PATH_SIZE + 1),
                 i |-> 0, j |-> 0, len |-> 0, rc |-> 0, pc |-> "loop"]
    IN  IF InvalidInput(p_in, out_null)
        THEN [base EXCEPT !.rc = -EINVAL, !.pc = "done"]
        ELSE IF TooLong(Len(p_in))
        THEN [base EXCEPT !.len = Len(p_in), !.rc = -ENOMEM, !.pc = "done"]
        ELSE [base EXCEPT !.len = Len(p_in)]

SimplifyReturnConsumed(s) == s.i

\* path_out[j] = '\0'; return j;
SimplifyReturn(s) == s.j

\* one iteration of the while loop, or the termination after it
SimplifyIter(s) ==
    IF s.i < s.len
    THEN LET c == s.path_in[s.i + 1]
         IN  IF ~Copies(s, c)
             THEN [s EXCEPT !.i = s.i + 1]
             ELSE LET out1 == [s.path_out EXCEPT ![s.j] = c]
                      j1 == s.j + 1
                      k == PrevSlash(out1, j1)
                  IN  IF EndsDotDot(out1, j1) /\ k < 0
                      THEN [s EXCEPT !.path_out = out1, !.j = j1,
                                     !.rc = -EINVAL, !.pc = "done"]
                      ELSE LET j2 == IF EndsDotDot(out1, j1) THEN k + 1 ELSE j1
                               j3 == IF EndsDot(out1, j2) THEN j2 - 2 ELSE j2
                           IN  [s EXCEPT !.path_out = out1, !.j = j3, !.i = s.i + 1]
    ELSE [s EXCEPT !.path_out[s.j] = NUL, !.rc = SimplifyReturn(s), !.pc = "done"]

RECURSIVE SimplifyRun(_)
SimplifyRun(s) == IF s.pc = "done" THEN s ELSE SimplifyRun(SimplifyIter(s))

\* the whole call: [rc, path_out] as the caller sees them
fsu_simplify_path(p_in) == SimplifyRun(SimplifyEnter(p_in, FALSE))

SimplifyIdle == [pc |-> "idle"]

SimplifyCall ==
    /\ simplify.pc = "idle"
    /\ \E p \in SimplifyInputs \cup {NULL}, out_null \in BOOLEAN :
          simplify' = SimplifyEnter(p, out_null)
    /\ UNCHANGED pathOthers

SimplifyStep ==
    /\ simplify.pc = "loop"
    /\ simplify' = SimplifyIter(simplify)
    /\ UNCHANGED pathOthers

\* the output string of a finished, successful call
SimplifyOut == CStr(simplify.path_out, FSU_MAX_ABS_PATH_SIZE + 1)

SimplifySucceeded == simplify.pc = "done" /\ simplify.rc >= 0

(***************************************************************************)
(* Reference rewriting of a path, segment by segment                       *)
(***************************************************************************)
PathExample == <<"/", "a", "/", "/", "b", "/", ".", "/", "c", "/", ".", ".", "/", "d">>
PathABackB == <<"/", "a", "/", ".", ".", "/", "b">>
PathBackB == <<"/", ".", ".", "/", "b">>

Undefined == <<"UNDEFINED">>

RECURSIVE LastSlashBefore(_, _)
\* the greatest index <= n of acc holding a separator, 0 when there is none
LastSlashBefore(acc, n) ==
    IF n >= 1 /\ acc[n] # "/" THEN LastSlashBefore(acc, n - 1) ELSE n

\* acc without its last kept segment and the separator after it
DropLastSegment(acc) == SubSeq(acc, 1, LastSlashBefore(acc, Len(acc) - 1))

\* acc ends with a non-empty kept segment followed by a separator
HasSegment(acc) == Len(acc) >= 2

RECURSIVE RefFrom(_, _, _, _)
\* p: input, n: next index, acc: kept segments with their separators,
\* seg: the characters of the segment being read
RefFrom(p, n, acc, seg) ==
    IF n > Len(p) THEN acc \o seg
    ELSE IF p[n] # "/" THEN RefFrom(p, n + 1, acc, Append(seg, p[n]))
    ELSE IF n > 1 /\ p[n - 1] = "/" THEN RefFrom(p, n + 1, acc, seg)
    ELSE IF seg = <<".">> THEN RefFrom(p, n + 1, acc, <<>>)
    ELSE IF seg = <<".", ".">>
         THEN IF HasSegment(acc)
              THEN RefFrom(p, n + 1, DropLastSegment(acc), <<>>)
              ELSE Undefined
    ELSE RefFrom(p, n + 1, acc \o seg \o <<"/">>, <<>>)

RefRewrite(p) == RefFrom(p, 1, <<>>, <<>>)

IsAbsolute(p) == Len(p) >= 1 /\ p[1] = "/"

\* a segment of q equal to seg starts at index n
SegmentAt(q, n, seg) ==
    /\ n + Len(seg) - 1 <= Len(q)
    /\ SubSeq(q, n, n + Len(seg) - 1) = seg
    /\ (n = 1 \/ q[n - 1] = "/")
    /\ (n + Len(seg) - 1 = Len(q) \/ q[n + Len(seg)] = "/")

WellFormedPath(q) ==
    /\ \A n \in 1..(Len(q) - 1) : ~(q[n] = "/" /\ q[n + 1] = "/")
    /\ \A n \in 1..Len(q) : ~SegmentAt(q, n, <<".">>) /\ ~SegmentAt(q, n, <<".", ".">>)

(***************************************************************************)
(* Claims about the path normalizer (SpecPath)                             *)
(***************************************************************************)
\* C2 (as stated): normalize("/a/../b") fails with MalformedTraversal, a
\* negative error code, instead of producing a path.
C2_TraversalRejected ==
    (simplify.pc = "done" /\ simplify.path_in = PathABackB /\ ~simplify.out_null)
        => simplify.rc = -EINVAL

\* C2 (amended): normalize("/a/../b") succeeds with "/b" and returns 2, the
\* ".." removing the segment "a"; MalformedTraversal (-EINVAL) is what
\* normalize("/../b") returns, where no separator precedes the removed segment.
C2_ParentResolved ==
    (simplify.pc = "done" /\ ~simplify.out_null) =>
        /\ simplify.path_in = PathABackB =>
              simplify.rc = 2 /\ SimplifyOut = <<"/", "b">>
        /\ simplify.path_in = PathBackB => simplify.rc = -EINVAL

C2_Witness ==
    simplify.pc = "done" /\ simplify.path_in = PathABackB /\ ~simplify.out_null
        /\ simplify.rc >= 0

\* C9: every successful normalize output has no two adjacent separators and
\* no segment equal to "." or "..", also for inputs ending in a "." or ".."
\* segment without a trailing separator (stated here for absolute inputs).
C9_OutputWellFormed ==
    (SimplifySucceeded /\ IsAbsolute(simplify.path_in)) => WellFormedPath(SimplifyOut)

\* C10 (as stated): normalize("/a//b/./c/../d") = "/a/b/d", and for every
\* input on which normalize succeeds the output equals the reference rewriting.
C10_EqualsReferenceAllInputs ==
    SimplifySucceeded =>
        /\ simplify.path_in = PathExample => SimplifyOut = <<"/", "a", "/", "b", "/", "d">>
        /\ SimplifyOut = RefRewrite(simplify.path_in)

\* C10 (amended): normalize("/a//b/./c/../d") = "/a/b/d", and for every input
\* that starts with a separator and on which normalize succeeds, the output
\* equals the reference rewriting and the return value is its length.
C10_EqualsReferenceAbsolute ==
    /\ (simplify.pc = "done" /\ simplify.path_in = PathExample /\ ~simplify.out_null)
          => (simplify.rc = 6 /\ SimplifyOut = <<"/", "a", "/", "b", "/", "d">>)
    /\ (SimplifySucceeded /\ IsAbsolute(simplify.path_in))
          => (SimplifyOut = RefRewrite(simplify.path_in) /\ simplify.rc = Len(SimplifyOut))

C10_Witness ==
    SimplifySucceeded /\ simplify.path_in = PathExample

\* C11: for every absolute path of at most FSU_MAX_ABS_PATH_SIZE characters
\* that has only single separators and no "." or ".." segment,
\* fsu_simplify_path succeeds, returns its length and leaves it unchanged.
C11_WellFormedPathUnchanged ==
    (simplify.pc = "done" /\ ~simplify.out_null
        /\ IsAbsolute(simplify.path_in) /\ WellFormedPath(simplify.path_in)
        /\ Len(simplify.path_in) <= FSU_MAX_ABS_PATH_SIZE)
    => (simplify.rc = Len(simplify.path_in) /\ SimplifyOut = simplify.path_in)

\* the normalizer finished on the longest admitted path
C11_Witness ==
    simplify.pc = "done" /\ ~simplify.out_null /\ simplify.path_in = FullLengthPath
        /\ simplify.rc = FSU_MAX_ABS_PATH_SIZE

\* C27: fsu_simplify_path returns -ENOMEM for every input longer than
\* FSU_MAX_ABS_PATH_SIZE and for no input of at most that length, and returns
\* -EINVAL when path_in or path_out is NULL.
C27_TooLongExactlyBeyondLimit ==
    simplify.pc = "done" =>
        IF simplify.path_in = NULL \/ simplify.out_null
        THEN simplify.rc = -EINVAL
        ELSE (simplify.rc = -ENOMEM) <=> (Len(simplify.path_in) > FSU_MAX_ABS_PATH_SIZE)

\* an input one character too long was refused
C27_Witness ==
    /\ simplify.pc = "done" /\ simplify.path_in # NULL /\ ~simplify.out_null
    /\ Len(simplify.path_in) = FSU_MAX_ABS_PATH_SIZE + 1
    /\ simplify.rc = -ENOMEM /\ simplify.i = 0

\* the input characters the scan has consumed: i of them, and one more when
\* the scan returned from inside its loop body, before its i++
Consumed(s) == IF s.pc = "done" /\ s.rc = -EINVAL THEN s.i + 1 ELSE s.i

\* C28: when fsu_simplify_path succeeds the value returned is the length of
\* the output string, the output is terminated at that index, and
\* 0 <= j <= strlen(path_in) <= FSU_MAX_ABS_PATH_SIZE; at every step of the
\* scan the output cursor j stays within 0..i, i being the number of input
\* characters consumed.
C28_CursorWithinConsumed ==
    /\ (simplify.pc \in {"loop", "done"} /\ simplify.path_in # NULL
            /\ ~simplify.out_null) =>
          /\ 0 <= simplify.j /\ simplify.j <= Consumed(simplify)
          /\ Consumed(simplify) <= simplify.len
    /\ SimplifySucceeded =>
          /\ simplify.rc = simplify.j
          /\ simplify.rc = Len(SimplifyOut)
          /\ simplify.path_out[simplify.rc] = NUL
          /\ \A n \in 0..(simplify.rc - 1) : simplify.path_out[n] # NUL
          /\ 0 <= simplify.rc /\ simplify.rc <= Len(simplify.path_in)
          /\ Len(simplify.path_in) <= FSU_MAX_ABS_PATH_SIZE

\* a successful scan that consumed more characters than it kept
C28_Witness ==
    /\ SimplifySucceeded /\ simplify.path_in = PathExample
    /\ simplify.rc = 6 /\ simplify.i = 14

\* the places of the separators in the output before the segment that
\* precedes a "/../" just written, j characters being written
EarlierSeparators(out, j) == {k \in 0..(j - 5) : out[k] = "/"}

\* this iteration writes a character and the output then ends with "/../"
WritesDotDot ==
    /\ simplify.pc = "loop" /\ simplify.i < simplify.len
    /\ Copies(simplify, simplify.path_in[simplify.i + 1])
    /\ EndsDotDot(simplify'.path_out, simplify.j + 1)

\* C37: fsu_simplify_path fails with MalformedTraversal (-EINVAL) exactly
\* when a "/../" has just been written to the output and no separator exists
\* in the output before the segment that precedes it; in every other case of
\* a "/../" just written, the output cursor is rewound to just after the
\* nearest such separator and the scan continues with the next character.
C37_MalformedTraversalIffNoEarlierSeparator ==
    [][simplify.pc = "loop" =>
        LET seps == EarlierSeparators(simplify'.path_out, simplify.j + 1)
        IN  /\ (simplify'.pc = "done" /\ simplify'.rc = -EINVAL)
                  <=> (WritesDotDot /\ seps = {})
            /\ (WritesDotDot /\ seps # {}) =>
                  /\ simplify'.pc = "loop" /\ simplify'.i = simplify.i + 1
                  /\ simplify'.j = 1 + CHOOSE k \in seps : \A m \in seps : m <= k]_vars

\* the "/../" of "/a//b/./c/../d" has been written after "/a/b/c" and the
\* cursor rewound to just after the separator that precedes "c"
C37_Witness ==
    /\ simplify.pc = "loop" /\ simplify.path_in = PathExample
    /\ simplify.i = 13 /\ simplify.j = 5

\* fsu_simplify_path called again, on the output of the call just finished
SimplifiedAgain == fsu_simplify_path(SimplifyOut)

\* C38: fsu_simplify_path is idempotent: for every input of at most
\* FSU_MAX_ABS_PATH_SIZE characters on which it succeeds with output q, the
\* call on q succeeds too and its output equals q.
C38_SimplifyIdempotent ==
    SimplifySucceeded =>
        /\ SimplifiedAgain.rc >= 0
        /\ CStr(SimplifiedAgain.path_out, FSU_MAX_ABS_PATH_SIZE + 1) = SimplifyOut

\* "/a//b/./c/../d" gave "/a/b/d", which the second call leaves as it is
C38_Witness ==
    /\ SimplifySucceeded /\ simplify.path_in = PathExample
    /\ SimplifyOut = <<"/", "a", "/", "b", "/", "d">>
    /\ SimplifiedAgain.rc = 6
    /\ CStr(SimplifiedAgain.path_out, FSU_MAX_ABS_PATH_SIZE + 1) = SimplifyOut

(***************************************************************************)
(* Mount gate: fsu_lfs_mount (CONFIG_FSU_LFS_MOUNT enabled)                *)
(***************************************************************************)
Threads == 1..NumThreads
NoOwner == 0

MountIdle ==
    [lfs_mounted |-> FALSE,
     lfs_init_mutex |-> NoOwner,
     fs_mount_ok |-> 0,          \* underlying mounts that succeeded so far
     pc |-> [t \in Threads |-> "idle"],
     rc |-> [t \in Threads |-> 0],
     calls |-> [t \in Threads |-> 0],
     attempted |-> [t \in Threads |-> FALSE],   \* this call ran fs_mount
     unlocks |-> [t \in Threads |-> 0],         \* this call's k_mutex_unlock calls
     late |-> [t \in Threads |-> FALSE]]        \* this call began after a success

MutexFreeAlways(t) == TRUE

\* k_mutex_lock(&lfs_init_mutex, K_FOREVER) can return
MutexFree(t) == mount.lfs_init_mutex = NoOwner

\* a caller enters fsu_lfs_mount: rc = -ENOSYS
MountCall(t) ==
    /\ mount.pc[t] = "idle"
    /\ mount.calls[t] < MaxMountCalls
    /\ mount' = [mount EXCEPT !.pc[t] = "lock", !.rc[t] = -ENOSYS,
                              !.calls[t] = @ + 1,
                              !.attempted[t] = FALSE,
                              !.unlocks[t] = 0,
                              !.late[t] = mount.fs_mount_ok > 0]
    /\ UNCHANGED mountOthers

MountLock(t) ==
    /\ mount.pc[t] = "lock"
    /\ MutexFree(t)
    /\ mount' = [mount EXCEPT !.lfs_init_mutex = t, !.pc[t] = "check"]
    /\ UNCHANGED mountOthers

\* if (!lfs_mounted) ... else rc = 0
MountCheck(t) ==
    /\ mount.pc[t] = "check"
    /\ mount' = IF ~mount.lfs_mounted
                THEN [mount EXCEPT !.pc[t] = "fs_mount"]
                ELSE [mount EXCEPT !.rc[t] = 0, !.pc[t] = "unlock"]
    /\ UNCHANGED mountOthers

MountedAfterAttempt(mounted, r) == TRUE

\* if (rc != 0) { LOG_ERR(...); } else { lfs_mounted = true; }
MountedAfter(mounted, r) == IF r # 0 THEN mounted ELSE TRUE

\* rc = fs_mount(&littlefs_mnt); on success lfs_mounted = true
MountFsMount(t) ==
    /\ mount.pc[t] = "fs_mount"
    /\ \E r \in {0, -EIO} :
          mount' = [mount EXCEPT !.rc[t] = r,
                                 !.attempted[t] = TRUE,
                                 !.lfs_mounted = MountedAfter(@, r),
                                 !.fs_mount_ok = IF r = 0 THEN @ + 1 ELSE @,
                                 !.pc[t] = "unlock"]
    /\ UNCHANGED mountOthers

MutexKept(owner, t) == owner

\* k_mutex_unlock(&lfs_init_mutex): the owner gives the mutex up
MutexUnlocked(owner, t) == IF owner = t THEN NoOwner ELSE owner

MountUnlock(t) ==
    /\ mount.pc[t] = "unlock"
    /\ mount' = [mount EXCEPT !.lfs_init_mutex = MutexUnlocked(@, t),
                              !.unlocks[t] = @ + 1,
                              !.pc[t] = "ret"]
    /\ UNCHANGED mountOthers

MountReturn(t) ==
    /\ mount.pc[t] = "ret"
    /\ mount' = [mount EXCEPT !.pc[t] = "idle"]
    /\ UNCHANGED mountOthers

(***************************************************************************)
(* Claims about the mount gate (SpecMount)                                 *)
(***************************************************************************)
\* C8: under any interleaving of concurrent mount() callers the underlying
\* mount is attempted only while the caller holds the lock and lfs_mounted is
\* false; at most one underlying mount ever succeeds; and a mount() call begun
\* after one has succeeded returns 0 without calling the underlying mount.
C8_MountOnlyUnderLockOnce ==
    /\ \A t \in Threads :
          mount.pc[t] = "fs_mount" =>
              (mount.lfs_init_mutex = t /\ ~mount.lfs_mounted)
    /\ mount.fs_mount_ok <= 1
    /\ \A t \in Threads :
          (mount.pc[t] = "ret" /\ mount.late[t]) =>
              (mount.rc[t] = 0 /\ ~mount.attempted[t])

\* a call begun after the successful mount has returned while another caller
\* is inside fsu_lfs_mount
C8_Witness ==
    /\ mount.fs_mount_ok = 1
    /\ \E t, u \in Threads :
          /\ t # u
          /\ mount.pc[t] = "ret" /\ mount.late[t]
          /\ mount.pc[u] \in {"lock", "check", "unlock"}

\* C17: lfs_mounted is false initially, becomes true only in the step in
\* which an fs_mount returns 0, and never becomes false again; a call whose
\* fs_mount fails leaves lfs_mounted false and returns the error fs_mount
\* gave, and a call that finds lfs_mounted false attempts fs_mount again.
C17_MountedFlagLatches ==
    /\ ~mount.lfs_mounted
    /\ [][/\ mount.lfs_mounted => mount'.lfs_mounted
          /\ (~mount.lfs_mounted /\ mount'.lfs_mounted) =>
                \E t \in Threads :
                    /\ mount.pc[t] = "fs_mount" /\ mount'.rc[t] = 0
                    /\ mount'.fs_mount_ok = mount.fs_mount_ok + 1
          /\ \A t \in Threads :
                /\ (mount.pc[t] = "fs_mount" /\ mount'.pc[t] # "fs_mount"
                        /\ mount'.rc[t] # 0) =>
                      (~mount'.lfs_mounted /\ mount'.rc[t] = -EIO
                        /\ mount'.fs_mount_ok = mount.fs_mount_ok)
                /\ mount.pc[t] \in {"unlock", "ret"} => mount'.rc[t] = mount.rc[t]
                /\ (mount.pc[t] = "check" /\ mount'.pc[t] # "check") =>
                      (mount'.pc[t] = "fs_mount" <=> ~mount.lfs_mounted)]_vars

\* a caller whose first call failed to mount is attempting fs_mount again
C17_Witness ==
    \E t \in Threads :
        /\ mount.calls[t] = 2 /\ mount.pc[t] = "fs_mount"
        /\ mount.fs_mount_ok = 0 /\ ~mount.lfs_mounted

(***************************************************************************)
(* Storage API: the namespace and the calls the utilities make on it       *)
(***************************************************************************)
FS_DIR_ENTRY_FILE == 0
FS_DIR_ENTRY_DIR == 1

Root == <<"/">>

Min(a, b) == IF a < b THEN a ELSE b
Max(a, b) == IF a > b THEN a ELSE b

\* the path the storage resolves: a trailing separator is ignored
Canon(path) ==
    IF Len(path) > 1 /\ path[Len(path)] = "/" THEN SubSeq(path, 1, Len(path) - 1) ELSE path

RECURSIVE LastSlash(_, _)
LastSlash(path, n) == IF n >= 1 /\ path[n] # "/" THEN LastSlash(path, n - 1) ELSE n

\* the directory that holds path
Parent(path) ==
    LET n == LastSlash(path, Len(path))
    IN  IF n <= 1 THEN Root ELSE SubSeq(path, 1, n - 1)

\* the name of path inside its directory
BaseName(path) == SubSeq(path, LastSlash(path, Len(path)) + 1, Len(path))

Exists(ns, path) == path # NULL /\ Canon(path) \in DOMAIN ns
IsDir(ns, path) == Exists(ns, path) /\ ns[Canon(path)].type = FS_DIR_ENTRY_DIR
IsFile(ns, path) == Exists(ns, path) /\ ns[Canon(path)].type = FS_DIR_ENTRY_FILE

\* a new entry can be made at path: it is absent and its directory exists
CanCreate(ns, path) ==
    /\ path # NULL /\ Len(path) >= 2 /\ path[1] = "/"
    /\ ~Exists(ns, path) /\ IsDir(ns, Parent(Canon(path)))

FileNode(data) == [type |-> FS_DIR_ENTRY_FILE, data |-> data]
DirNode == [type |-> FS_DIR_ENTRY_DIR, data |-> <<>>]

\* ns with path bound to node
WithNode(ns, path, node) ==
    [q \in DOMAIN ns \cup {Canon(path)} |-> IF q = Canon(path) THEN node ELSE ns[q]]

\* ns without path
WithoutNode(ns, path) == [q \in DOMAIN ns \ {Canon(path)} |-> ns[q]]

HasChildren(ns, path) == \E q \in DOMAIN ns : q # Root /\ Parent(q) = Canon(path)

\* struct fs_dirent as fs_stat fills it
StatEntry(ns, path) ==
    [name |-> BaseName(Canon(path)),
     type |-> ns[Canon(path)].type,
     size |-> Len(ns[Canon(path)].data)]

\* the file's bytes after fs_truncate(handle, size): cut, or extended with zeros
Truncated(data, size) == [n \in 1..size |-> IF n <= Len(data) THEN data[n] ELSE 0]

\* the file's bytes after writing `bytes` at offset pos
WrittenAt(data, pos, bytes) ==
    [n \in 1..Max(Len(data), pos + Len(bytes)) |->
        IF n > pos /\ n <= pos + Len(bytes) THEN bytes[n - pos]
        ELSE IF n <= Len(data) THEN data[n] ELSE 0]

\* fs_open(&file, path, flags) when the storage does not fail: the result and
\* the namespace after it (FS_O_CREATE makes an absent file)
FsOpen(ns, path, flags) ==
    IF IsFile(ns, path) THEN [rc |-> 0, ns |-> ns]
    ELSE IF IsDir(ns, path) THEN [rc |-> -EISDIR, ns |-> ns]
    ELSE IF "create" \in flags /\ CanCreate(ns, path)
         THEN [rc |-> 0, ns |-> WithNode(ns, path, FileNode(<<>>))]
    ELSE [rc |-> -ENOENT, ns |-> ns]

\* the bytes fs_read(handle, buf, size) transfers from offset pos
ReadAt(data, pos, size) ==
    IF pos >= Len(data) THEN <<>> ELSE SubSeq(data, pos + 1, Min(Len(data), pos + size))

(***************************************************************************)
(* The call in progress                                                    *)
(***************************************************************************)
OpIdle == [pc |-> "idle", kind |-> "none"]

\* the locals every call starts with
OpBase(kind, path) ==
    [pc |-> "start", kind |-> kind, abs_path |-> path,
     rc |-> -EPERM,
     faults |-> 0,          \* storage and allocation failures met by this call
     calls |-> <<>>,        \* the storage API calls made by this call, in order
     before |-> fs]         \* the namespace when the call was made

CanCall(kind) == op.pc = "idle" /\ script # <<>> /\ Head(script) = kind

\* a storage call or an allocation may fail
MayFail == op.faults < MaxFaults

Called(o, name) == [o EXCEPT !.calls = Append(@, name)]
Failed(o) == [o EXCEPT !.faults = @ + 1]

k_free_kept(ptr) == ptr

\* k_free(ptr) of a pointer that is NULL ("none", "null"), points to a live
\* block ("allocated", "held") or to a block already released ("freed"): NULL is
\* left alone, and a released block is released a second time
k_free(ptr) ==
    CASE ptr \in {"allocated", "held"} -> "freed"
      [] ptr = "freed" -> "twice"
      [] OTHER -> ptr

\* the call is an fsu_find made from inside another utility
Nested(o) == o.kind = "find" /\ "caller" \in DOMAIN o

\* the call returns to its caller
OpReturn ==
    /\ op.pc = "ret" /\ ~Nested(op)
    /\ prev' = [field \in DOMAIN op \cap {"pc", "kind", "abs_path", "size", "data", "rc",
                                         "recursive", "results"} |->
                    op[field]]
    /\ op' = OpIdle
    /\ UNCHANGED <<fs, script, config>>
    /\ UNCHANGED fsOthers

(***************************************************************************)
(* fsu_write_abs / fsu_append_abs: fsu_wa_abs                              *)
(***************************************************************************)
DataBytes == {1, 2}
DataValues == UNION {[1..n -> DataBytes] : n \in 0..MaxFileLen}

\* a file (or nothing), a directory, and a path whose directory does not exist
FilePaths == { <<"/", "a">>, <<"/", "d">>, <<"/", "x", "/", "a">> }

\* the arguments and locals of fsu_wa_abs
WaLocals(data, append) ==
    [data |-> data, size |-> Len(data), append |-> append,
     written |-> 0,      \* what fs_write returned
     step_rc |-> 0,      \* rc when fs_close was called
     close_rc |-> 0]     \* rc2

WaCall ==
    /\ \E path \in FilePaths \cup {NULL}, data \in DataValues, append \in BOOLEAN :
          /\ CanCall(IF append THEN "append" ELSE "write")
          /\ op' = OpBase(IF append THEN "append" ELSE "write", path)
                   @@ WaLocals(data, append)
    /\ script' = Tail(script)
    /\ UNCHANGED <<fs, prev, config>>
    /\ UNCHANGED fsOthers

IsWa == op.kind \in {"write", "append"}

\* fs_open flags of fsu_wa_abs: FS_O_CREATE | FS_O_WRITE | (append ? FS_O_APPEND : 0)
WaOpenFlags(append) == {"create", "write"} \cup (IF append THEN {"append"} ELSE {})

\* if (abs_path == NULL) break; rc = fs_open(&handle, abs_path, flags); BREAK_ON_ERROR(rc)
WaOpen ==
    /\ IsWa /\ op.pc = "start"
    /\ \/ /\ op.abs_path = NULL
          /\ op' = [op EXCEPT !.pc = "size_check"]
          /\ fs' = fs
       \/ /\ op.abs_path # NULL
          /\ LET r == FsOpen(fs, op.abs_path, WaOpenFlags(op.append))
             IN  /\ op' = [Called(op, "open") EXCEPT
                              !.rc = r.rc,
                              !.pc = IF r.rc < 0 THEN "size_check" ELSE "truncate"]
                 /\ fs' = r.ns
       \/ /\ op.abs_path # NULL
          /\ MayFail
          /\ op' = [Failed(Called(op, "open")) EXCEPT !.rc = -EIO, !.pc = "size_check"]
          /\ fs' = fs
    /\ UNCHANGED <<prev, script, config>>
    /\ UNCHANGED fsOthers

\* if (rc >= 0 && !append) rc = fs_truncate(&handle, size);
WaTruncate ==
    /\ IsWa /\ op.pc = "truncate"
    /\ \/ /\ op.append
          /\ op' = [op EXCEPT !.pc = "write"]
          /\ fs' = fs
       \/ /\ ~op.append
          /\ op' = [Called(op, "truncate") EXCEPT !.rc = 0, !.pc = "write"]
          /\ fs' = [fs EXCEPT ![Canon(op.abs_path)].data = Truncated(@, op.size)]
       \/ /\ ~op.append
          /\ MayFail
          /\ op' = [Failed(Called(op, "truncate")) EXCEPT !.rc = -EIO, !.pc = "write"]
          /\ fs' = fs
    /\ UNCHANGED <<prev, script, config>>
    /\ UNCHANGED fsOthers

\* the offset fs_write writes at: the start of the file just opened, or its
\* end under FS_O_APPEND
WaWriteOffset(o, data) == IF o.append THEN Len(data) ELSE 0

WaWriteResultCount(written, size) == written

\* rc = fs_write(...); if (rc < 0) ... else if (rc != size) rc = -ENOSPC;
WaWriteResult(written, size) ==
    IF written < 0 THEN written ELSE IF written # size THEN -ENOSPC ELSE written

\* rc = fs_write(&handle, data, size), which may transfer fewer bytes or fail
WaWrite ==
    /\ IsWa /\ op.pc = "write"
    /\ LET file == fs[Canon(op.abs_path)]
           at == WaWriteOffset(op, file.data)
       IN  \/ /\ op' = [Called(op, "write") EXCEPT
                           !.written = op.size,
                           !.rc = WaWriteResult(op.size, op.size), !.pc = "close"]
              /\ fs' = [fs EXCEPT ![Canon(op.abs_path)].data =
                                      WrittenAt(@, at, op.data)]
           \/ /\ MayFail
              /\ \E written \in 0..(op.size - 1) :
                    /\ op' = [Failed(Called(op, "write")) EXCEPT
                                 !.written = written,
                                 !.rc = WaWriteResult(written, op.size), !.pc = "close"]
                    /\ fs' = [fs EXCEPT ![Canon(op.abs_path)].data =
                                            WrittenAt(@, at, SubSeq(op.data, 1, written))]
           \/ /\ MayFail
              /\ op' = [Failed(Called(op, "write")) EXCEPT
                           !.written = -EIO,
                           !.rc = WaWriteResult(-EIO, op.size), !.pc = "close"]
              /\ fs' = fs
    /\ UNCHANGED <<prev, script, config>>
    /\ UNCHANGED fsOthers

CloseResultMasks(rc, rc2) == IF rc2 < 0 THEN rc2 ELSE rc

\* rc2 = fs_close(); if (rc2 < 0) { if (rc >= 0) rc = rc2; }  Don't mask other errors
CloseResult(rc, rc2) == IF rc2 < 0 /\ rc >= 0 THEN rc2 ELSE rc

\* the call after its fs_close returned rc2
Closed(o, rc2) ==
    [Called(o, "close") EXCEPT !.step_rc = o.rc, !.close_rc = rc2,
                               !.rc = CloseResult(o.rc, rc2)]

WaClose ==
    /\ IsWa /\ op.pc = "close"
    /\ \/ op' = [Closed(op, 0) EXCEPT !.pc = "size_check"]
       \/ /\ MayFail
          /\ op' = [Failed(Closed(op, -EIO)) EXCEPT !.pc = "size_check"]
    /\ UNCHANGED <<fs, prev, script, config>>
    /\ UNCHANGED fsOthers

\* fsu_get_file_size_abs as a whole, given whether its k_malloc succeeds
GetFileSizeAbs(ns, path, malloc_ok) ==
    IF ~malloc_ok THEN -ENOMEM
    ELSE IF ~Exists(ns, path) THEN -ENOENT
    ELSE StatEntry(ns, path).size

SizeCheckResultKeeps(rc, append, read_size, size) == rc

\* #ifdef CONFIG_FSU_REWRITE_SIZE_CHECK: if (rc >= 0 && !append) { if (read_size != size) rc = -EIO; }
SizeCheckResult(rc, append, read_size, size) ==
    IF rc >= 0 /\ ~append /\ read_size # size THEN -EIO ELSE rc

WaSizeCheck ==
    /\ IsWa /\ op.pc = "size_check"
    /\ \/ /\ ~(config.FSU_REWRITE_SIZE_CHECK /\ op.rc >= 0 /\ ~op.append)
          /\ op' = [op EXCEPT !.pc = "ret"]
       \/ /\ config.FSU_REWRITE_SIZE_CHECK /\ op.rc >= 0 /\ ~op.append
          /\ op' = [Called(op, "stat") EXCEPT
                       !.rc = SizeCheckResult(op.rc, op.append,
                                  GetFileSizeAbs(fs, op.abs_path, TRUE), op.size),
                       !.pc = "ret"]
       \/ /\ config.FSU_REWRITE_SIZE_CHECK /\ op.rc >= 0 /\ ~op.append
          /\ MayFail
          /\ op' = [Failed(op) EXCEPT
                       !.rc = SizeCheckResult(op.rc, op.append,
                                  GetFileSizeAbs(fs, op.abs_path, FALSE), op.size),
                       !.pc = "ret"]
    /\ UNCHANGED <<fs, prev, script, config>>
    /\ UNCHANGED fsOthers

(***************************************************************************)
(* fsu_read_abs_block, fsu_get_file_size_abs, fsu_delete_abs               *)
(***************************************************************************)
ReadOffsets == {0, 1}

\* the arguments of a read: right after a write, the caller reads back what it
\* wrote (the same path, offset 0, the same size)
ReadArgs ==
    IF prev.kind = "write"
    THEN {[path |-> prev.abs_path, offset |-> 0, size |-> prev.size]}
    ELSE [path : FilePaths \cup {NULL}, offset : ReadOffsets, size : 0..MaxFileLen]

\* the arguments and locals of fsu_read_abs_block
ReadLocals(offset, size) ==
    [offset |-> offset, size |-> size, data |-> <<>>,
     entry |-> "none",
     open_rc |-> -EPERM, \* r when fs_open returned
     step_rc |-> 0,      \* r when fs_close was called
     close_rc |-> 0]     \* rc2

ReadCall ==
    /\ CanCall("read")
    /\ \E args \in ReadArgs :
          op' = OpBase("read", args.path) @@ ReadLocals(args.offset, args.size)
    /\ script' = Tail(script)
    /\ UNCHANGED <<fs, prev, config>>
    /\ UNCHANGED fsOthers

ReadAfterStatOpens(r, type) ==
    IF r < 0 THEN [rc |-> r, pc |-> "free"] ELSE [rc |-> r, pc |-> "open"]

\* if (r < 0) break; else if (entry->type != FS_DIR_ENTRY_FILE) { r = -EISDIR; break; }
ReadAfterStat(r, type) ==
    IF r < 0 THEN [rc |-> r, pc |-> "free"]
    ELSE IF type # FS_DIR_ENTRY_FILE THEN [rc |-> -EISDIR, pc |-> "free"]
    ELSE [rc |-> r, pc |-> "open"]

\* if (abs_path == NULL) break; entry = k_malloc(); if (entry == NULL) break;
\* r = fs_stat(abs_path, entry); if (r < 0) break;
\* else if (entry->type != FS_DIR_ENTRY_FILE) { r = -EISDIR; break; }
ReadStat ==
    /\ op.kind = "read" /\ op.pc = "start"
    /\ \/ /\ op.abs_path = NULL
          /\ op' = [op EXCEPT !.pc = "free"]
       \/ /\ op.abs_path # NULL /\ MayFail
          /\ op' = [Failed(op) EXCEPT !.pc = "free"]
       \/ /\ op.abs_path # NULL
          /\ LET found == Exists(fs, op.abs_path)
                 after == ReadAfterStat(IF found THEN 0 ELSE -ENOENT,
                                        IF found THEN StatEntry(fs, op.abs_path).type
                                        ELSE FS_DIR_ENTRY_FILE)
             IN  op' = [Called(op, "stat") EXCEPT !.entry = "allocated",
                                                  !.rc = after.rc, !.pc = after.pc]
       \/ /\ op.abs_path # NULL /\ MayFail
          /\ LET after == ReadAfterStat(-EIO, FS_DIR_ENTRY_FILE)
             IN  op' = [Failed(Called(op, "stat")) EXCEPT !.entry = "allocated",
                                                          !.rc = after.rc, !.pc = after.pc]
    /\ UNCHANGED <<fs, prev, script, config>>
    /\ UNCHANGED fsOthers

\* fs_open flags of fsu_read_abs_block: FS_O_READ
ReadOpenFlags == {"read"}

\* r = fs_open(&f, abs_path, FS_O_READ); BREAK_ON_ERROR(r);
ReadOpen ==
    /\ op.kind = "read" /\ op.pc = "open"
    /\ \/ LET r == FsOpen(fs, op.abs_path, ReadOpenFlags)
          IN  /\ op' = [Called(op, "open") EXCEPT
                           !.rc = r.rc, !.open_rc = r.rc,
                           !.pc = IF r.rc < 0 THEN "free"
                                  ELSE IF op.offset # 0 THEN "seek" ELSE "read"]
              /\ fs' = r.ns
       \/ /\ MayFail
          /\ op' = [Failed(Called(op, "open")) EXCEPT !.rc = -EIO, !.open_rc = -EIO,
                                                      !.pc = "free"]
          /\ fs' = fs
    /\ UNCHANGED <<prev, script, config>>
    /\ UNCHANGED fsOthers

\* if (offset != 0) { r = fs_seek(&f, offset, FS_SEEK_SET); BREAK_ON_ERROR(r); }
ReadSeek ==
    /\ op.kind = "read" /\ op.pc = "seek"
    /\ \/ op' = [Called(op, "seek") EXCEPT !.rc = 0, !.pc = "read"]
       \/ /\ MayFail
          /\ op' = [Failed(Called(op, "seek")) EXCEPT !.rc = -EIO, !.pc = "free"]
    /\ UNCHANGED <<fs, prev, script, config>>
    /\ UNCHANGED fsOthers

\* r = fs_read(&f, data, size);
ReadRead ==
    /\ op.kind = "read" /\ op.pc = "read"
    /\ \/ LET got == ReadAt(fs[Canon(op.abs_path)].data, op.offset, op.size)
          IN  op' = [Called(op, "read") EXCEPT !.rc = Len(got), !.data = got, !.pc = "close"]
       \/ /\ MayFail
          /\ op' = [Failed(Called(op, "read")) EXCEPT !.rc = -EIO, !.pc = "close"]
    /\ UNCHANGED <<fs, prev, script, config>>
    /\ UNCHANGED fsOthers

\* rc2 = fs_close(&f); if (rc2 < 0) { if (r >= 0) r = rc2; }
ReadClose ==
    /\ op.kind = "read" /\ op.pc = "close"
    /\ \/ op' = [Closed(op, 0) EXCEPT !.pc = "free"]
       \/ /\ MayFail
          /\ op' = [Failed(Closed(op, -EIO)) EXCEPT !.pc = "free"]
    /\ UNCHANGED <<fs, prev, script, config>>
    /\ UNCHANGED fsOthers

\* (void)k_free(entry); return r;
ReadFree ==
    /\ op.kind = "read" /\ op.pc = "free"
    /\ op' = [op EXCEPT !.entry = k_free(@), !.pc = "ret"]
    /\ UNCHANGED <<fs, prev, script, config>>
    /\ UNCHANGED fsOthers

\* the path of a size query: right after a write, the path written
SizeArgs == IF prev.kind = "write" THEN {prev.abs_path} \ {NULL} ELSE FilePaths

SizeCall ==
    /\ CanCall("size")
    /\ \E path \in SizeArgs : op' = OpBase("size", path)
    /\ script' = Tail(script)
    /\ UNCHANGED <<fs, prev, config>>
    /\ UNCHANGED fsOthers

\* fsu_get_file_size_abs: k_malloc, fs_stat, k_free
SizeStat ==
    /\ op.kind = "size" /\ op.pc = "start"
    /\ \/ op' = [Called(op, "stat") EXCEPT
                    !.rc = GetFileSizeAbs(fs, op.abs_path, TRUE), !.pc = "ret"]
                @@ [entry |-> k_free("allocated")]
       \/ /\ MayFail
          /\ op' = [Failed(op) EXCEPT
                       !.rc = GetFileSizeAbs(fs, op.abs_path, FALSE), !.pc = "ret"]
                   @@ [entry |-> k_free("none")]
    /\ UNCHANGED <<fs, prev, script, config>>
    /\ UNCHANGED fsOthers

\* fs_unlink(path) when the storage does not fail: a file or an empty
\* directory is removed
FsUnlink(ns, path) ==
    IF ~Exists(ns, path) \/ Canon(path) = Root THEN [rc |-> -ENOENT, ns |-> ns]
    ELSE IF HasChildren(ns, path) THEN [rc |-> -ENOTEMPTY, ns |-> ns]
    ELSE [rc |-> 0, ns |-> WithoutNode(ns, path)]

DeleteCall ==
    /\ CanCall("delete")
    /\ \E path \in FilePaths : op' = OpBase("delete", path)
    /\ script' = Tail(script)
    /\ UNCHANGED <<fs, prev, config>>
    /\ UNCHANGED fsOthers

\* fsu_delete_abs: return fs_unlink(abs_path);
DeleteUnlink ==
    /\ op.kind = "delete" /\ op.pc = "start"
    /\ \/ LET r == FsUnlink(fs, op.abs_path)
          IN  /\ op' = [Called(op, "unlink") EXCEPT !.rc = r.rc, !.pc = "ret"]
              /\ fs' = r.ns
       \/ /\ MayFail
          /\ op' = [Failed(Called(op, "unlink")) EXCEPT !.rc = -EIO, !.pc = "ret"]
          /\ fs' = fs
    /\ UNCHANGED <<prev, script, config>>
    /\ UNCHANGED fsOthers

(***************************************************************************)
(* fsu_mkdir_abs                                                           *)
(***************************************************************************)
\* a namespace with the given directories and, under each path of files, a file
Namespace(dirs, files) ==
    [q \in {Root} \cup dirs \cup DOMAIN files |->
        IF q \in DOMAIN files THEN FileNode(files[q]) ELSE DirNode]

\* some directory on the way to path is a file
BelowFile(ns, path) ==
    \E n \in 2..Len(path) : path[n] = "/" /\ n < Len(Canon(path))
                            /\ IsFile(ns, SubSeq(path, 1, n - 1))

\* the errors the storage may report for a path that does not resolve
MissingErrors(ns, path) ==
    IF BelowFile(ns, path) THEN {-ENOENT, -ENOTDIR} ELSE {-ENOENT}

\* fs_stat(path, entry) when the storage does not fail: the results it may give
FsStatResults(ns, path) ==
    IF Exists(ns, path) THEN {0} ELSE MissingErrors(ns, path)

\* fs_mkdir(path) when the storage does not fail: the results it may give,
\* each with the namespace after it
FsMkdir(ns, path) ==
    IF Exists(ns, path) THEN {[rc |-> -EEXIST, ns |-> ns]}
    ELSE IF CanCreate(ns, path) THEN {[rc |-> 0, ns |-> WithNode(ns, path, DirNode)]}
    ELSE {[rc |-> e, ns |-> ns] : e \in MissingErrors(ns, path)}

MkdirPaths ==
    { <<"/", "a">>,
      <<"/", "a", "/", "b">>,
      <<"/", "a", "/", "b", "/", "c">>,
      <<"/", "a", "/", "/", "b">>,
      <<"/", "a", "/", "b", "/">>,
      <<"/", ".", ".", "/", "a">> }

\* the arguments and locals of fsu_mkdir_abs
MkdirLocals(recursive) ==
    [recursive |-> recursive,
     path |-> ZeroBuf(FSU_MAX_ABS_PATH_SIZE + 1), i |-> 1, done |-> FALSE,
     entry |-> "none",
     high |-> -1,            \* the highest index of path[] written
     spill |-> "none",       \* what a write past path[] landed on
     stale |-> 0,            \* reads of *entry made after k_free(entry)
     last |-> 0,             \* the result of the last storage call
     mkdirs |-> <<>>,        \* the paths fs_mkdir was called with
     created |-> <<>>]       \* the directories fs_mkdir made

MkdirCall ==
    /\ CanCall("mkdir")
    /\ \E path \in MkdirPaths \cup {NULL}, recursive \in BOOLEAN :
          op' = OpBase("mkdir", path) @@ MkdirLocals(recursive)
    /\ script' = Tail(script)
    /\ UNCHANGED <<fs, prev, config>>
    /\ UNCHANGED fsOthers

\* memset(path_out, 0, FSU_MAX_ABS_PATH_SIZE + 1): the bytes cleared
SimplifyCleared == FSU_MAX_ABS_PATH_SIZE + 1

\* the highest index of path_out a call of fsu_simplify_path wrote, -1 when
\* it wrote none: the memset, each path_out[j] = path_in[i] and the final
\* path_out[j] = '\0'
SimplifyHighest(s) ==
    IF InvalidInput(s.path_in, s.out_null) THEN -1
    ELSE IF s.rc >= 0 THEN Max(SimplifyCleared - 1, s.rc)
    ELSE SimplifyCleared - 1

\* char path[FSU_MAX_ABS_PATH_SIZE];
MkdirPathSize == FSU_MAX_ABS_PATH_SIZE

\* what a write at path[high] landed on: the array, or, past its end, the
\* padding after it or another object of the stack, as the build laid them out
Spills(high) == IF high < MkdirPathSize THEN {"none"} ELSE {"padding", "object"}

\* if (fsu_simplify_path(abs_path, path) < 0) return -EINVAL;
\* entry = k_malloc(sizeof(struct fs_dirent)); if (entry == NULL) return -ENOMEM;
MkdirSimplify ==
    /\ op.kind = "mkdir" /\ op.pc = "start"
    /\ LET s == fsu_simplify_path(op.abs_path)
       IN  \E spill \in Spills(SimplifyHighest(s)) :
           LET o == [op EXCEPT !.high = SimplifyHighest(s), !.spill = spill]
           IN  \/ /\ s.rc < 0
                  /\ op' = [o EXCEPT !.rc = -EINVAL, !.pc = "ret"]
               \/ /\ s.rc >= 0
                  /\ op' = [o EXCEPT !.path = s.path_out, !.entry = "allocated",
                                     !.pc = "stat"]
               \/ /\ s.rc >= 0 /\ MayFail
                  /\ op' = [Failed(o) EXCEPT !.path = s.path_out, !.rc = -ENOMEM,
                                             !.pc = "ret"]
    /\ UNCHANGED <<fs, prev, script, config>>
    /\ UNCHANGED fsOthers

\* the string the path buffer holds
MkdirPath(o) == CStr(o.path, FSU_MAX_ABS_PATH_SIZE + 1)

\* (void)k_free(entry);
EntryFreed(o) == [o EXCEPT !.entry = k_free(@)]

\* a read of entry->type: stale when the buffer is no longer allocated
EntryRead(o) == [o EXCEPT !.stale = IF o.entry = "allocated" THEN @ ELSE @ + 1]

\* r = fs_stat(path, entry);
\* if (r == 0) { k_free(entry); if (entry->type == FS_DIR_ENTRY_DIR) return 0; else return -ENOTDIR; }
\* entry->type is read after k_free(entry): the value read is whatever the
\* released memory then holds
MkdirStat ==
    /\ op.kind = "mkdir" /\ op.pc = "stat"
    /\ \/ \E r \in FsStatResults(fs, MkdirPath(op)) :
             \/ /\ r < 0
                /\ op' = [Called(op, "stat") EXCEPT !.rc = r, !.last = r, !.pc = "walk"]
             \/ /\ r = 0
                /\ \E type \in {FS_DIR_ENTRY_FILE, FS_DIR_ENTRY_DIR} :
                      op' = [EntryRead(EntryFreed(Called(op, "stat"))) EXCEPT
                                !.rc = IF type = FS_DIR_ENTRY_DIR THEN 0 ELSE -ENOTDIR,
                                !.pc = "ret"]
       \/ /\ MayFail
          /\ op' = [Failed(Called(op, "stat")) EXCEPT !.rc = -EIO, !.last = -EIO,
                                                    !.pc = "walk"]
    /\ UNCHANGED <<fs, prev, script, config>>
    /\ UNCHANGED fsOthers

RECURSIVE SegmentEnd(_, _)
\* while (path[i] != '\0' && path[i] != '/') i++;
SegmentEnd(buf, i) ==
    IF buf[i] # NUL /\ buf[i] # "/" THEN SegmentEnd(buf, i + 1) ELSE i

\* the path as terminated at index i: path[i] = '\0'
PathPrefix(buf, i) == [n \in 1..i |-> buf[n - 1]]

\* If we're recursive, we try every sub-path, else just the last one
MakesSegment(recursive, done) == recursive \/ done

\* one iteration of the walk's loop body, after its fs_stat and fs_mkdir
\* returned r: if (r < 0) break; if (!done) { path[i] = '/'; i++; }
MkdirAfterSegment(o, i, done, r) ==
    IF r < 0 THEN [o EXCEPT !.rc = r, !.last = r, !.i = i, !.done = done, !.pc = "free"]
    ELSE [o EXCEPT !.rc = r, !.last = r, !.i = IF done THEN i ELSE i + 1, !.done = done]

\* while (path[i] != '\0') { ... }: one iteration, or the loop's exit
MkdirWalk ==
    /\ op.kind = "mkdir" /\ op.pc = "walk"
    /\ \/ /\ op.path[op.i] = NUL
          /\ op' = [op EXCEPT !.pc = "free"]
          /\ fs' = fs
       \/ /\ op.path[op.i] # NUL
          /\ LET i == SegmentEnd(op.path, op.i)
                 done == op.path[i] # "/"
                 sub == PathPrefix(op.path, i)
             IN  \/ /\ ~MakesSegment(op.recursive, done)
                    /\ op' = [op EXCEPT !.i = i + 1, !.done = done]
                    /\ fs' = fs
                 \/ /\ MakesSegment(op.recursive, done)
                    /\ Exists(fs, sub)
                    /\ op' = MkdirAfterSegment(Called(op, "stat"), i, done, 0)
                    /\ fs' = fs
                 \/ /\ MakesSegment(op.recursive, done)
                    /\ \/ ~Exists(fs, sub)
                       \/ MayFail
                    /\ \E m \in FsMkdir(fs, sub) :
                          /\ op' = [MkdirAfterSegment(
                                        Called(Called(IF Exists(fs, sub) THEN Failed(op)
                                                      ELSE op, "stat"), "mkdir"),
                                        i, done, m.rc)
                                    EXCEPT !.mkdirs = Append(@, sub),
                                           !.created =
                                        IF m.rc = 0 THEN Append(@, sub) ELSE @]
                          /\ fs' = m.ns
                 \/ /\ MakesSegment(op.recursive, done)
                    /\ ~Exists(fs, sub) /\ MayFail
                    /\ op' = [MkdirAfterSegment(
                                 Failed(Called(Called(op, "stat"), "mkdir")), i, done, -EIO)
                              EXCEPT !.mkdirs = Append(@, sub)]
                    /\ fs' = fs
    /\ UNCHANGED <<prev, script, config>>
    /\ UNCHANGED fsOthers

MkdirReturnsZero(o) == 0

\* (void)k_free(entry); return r;
MkdirReturnValue(o) == o.rc

MkdirFree ==
    /\ op.kind = "mkdir" /\ op.pc = "free"
    /\ op' = [op EXCEPT !.entry = k_free(@), !.rc = MkdirReturnValue(op), !.pc = "ret"]
    /\ UNCHANGED <<fs, prev, script, config>>
    /\ UNCHANGED fsOthers

(***************************************************************************)
(* fsu_find                                                                *)
(***************************************************************************)
StrStrAtStart(hay, needle) ==
    Len(needle) <= Len(hay) /\ SubSeq(hay, 1, Len(needle)) = needle

\* strstr(hay, needle) != NULL
StrStr(hay, needle) ==
    \E n \in 0..(Len(hay) - Len(needle)) : SubSeq(hay, n + 1, n + Len(needle)) = needle

\* the names a directory may hold, in the order fs_readdir reports them
EntryNames == << <<"a">>, <<"a", "b">>, <<"b">> >>

Join(dir, name) == Canon(dir) \o <<"/">> \o name

IsListed(ns, dir, name) == Join(dir, name) \in DOMAIN ns

\* the entries of dir as fs_readdir reports them, in enumeration order
Listing(ns, dir) ==
    LET names == SelectSeq(EntryNames, LAMBDA name : IsListed(ns, dir, name))
    IN  [n \in 1..Len(names) |-> StatEntry(ns, Join(dir, names[n]))]

\* memset(entry, 0, sizeof(struct fs_dirent)), and each slot k_calloc returns
ZeroEntry == [name |-> <<>>, type |-> FS_DIR_ENTRY_FILE, size |-> 0]

\* what fs_readdir may leave in *slot at the end of the directory: the name
\* is made empty; the storage API says nothing of the other fields, which
\* the backends keep as they were or overwrite
EndEntries(slot) ==
    {[slot EXCEPT !.name = <<>>, !.type = type] :
        type \in {slot.type, FS_DIR_ENTRY_FILE, FS_DIR_ENTRY_DIR}}

\* fs_readdir(&dir, slot) when the storage does not fail: the entries it may store
FsReaddir(ns, path, pos, slot) ==
    LET list == Listing(ns, path)
    IN  IF pos < Len(list) THEN {list[pos + 1]} ELSE EndEntries(slot)

\* entry->name[0] == 0
EndOfDirectory(entry) == entry.name = <<>>

\* (entry->type == entry_type) && (strstr(entry->name, name) != NULL)
Matches(entry, entry_type, name) == entry.type = entry_type /\ StrStr(entry.name, name)

FindDirs == { <<"/", "d">>, <<"/", "x">> }
FindNames == { <<>>, <<"a">>, <<"b">> }

FindCall ==
    /\ CanCall("find")
    /\ \E path \in FindDirs \cup {NULL}, name \in FindNames \cup {NULL},
          entry_type \in {FS_DIR_ENTRY_FILE, FS_DIR_ENTRY_DIR} :
          op' = OpBase("find", path)
                @@ [name |-> name, entry_type |-> entry_type,
                    count |-> 0, i |-> 0,
                    results |-> [null |-> TRUE, slot |-> <<>>],
                    entry |-> "none",
                    dir |-> "closed", pos |-> 0]   \* struct fs_dir_t dir
    /\ script' = Tail(script)
    /\ UNCHANGED <<fs, prev, config>>
    /\ UNCHANGED fsOthers

\* fs_opendir(&dir, path) when the storage does not fail
FsOpendir(ns, path) == IF IsDir(ns, path) THEN 0 ELSE -ENOENT

\* the results of fs_opendir and of an allocation made next to it
OpendirResults == {FsOpendir(fs, op.abs_path)} \cup (IF MayFail THEN {-EIO} ELSE {})
AllocResults == {TRUE} \cup (IF MayFail THEN {FALSE} ELSE {})

Opened(o, opened, allocated) ==
    [(IF (opened = -EIO) \/ ~allocated THEN Failed(Called(o, "opendir"))
      ELSE Called(o, "opendir"))
     EXCEPT !.rc = opened,
            !.dir = IF opened >= 0 THEN "open" ELSE "closed",
            !.pos = 0]

\* *count = 0; if (path == NULL || name == NULL) return results;
\* rc = fs_opendir(&dir, path); entry = k_malloc(sizeof(struct fs_dirent));
FindOpen ==
    /\ op.kind = "find" /\ op.pc = "start"
    /\ \/ /\ op.abs_path = NULL \/ op.name = NULL
          /\ op' = [op EXCEPT !.pc = "ret"]
       \/ /\ op.abs_path # NULL /\ op.name # NULL
          /\ \E opened \in OpendirResults, allocated \in AllocResults :
                op' = [Opened(op, opened, allocated) EXCEPT
                          !.entry = IF allocated THEN "allocated" ELSE "none",
                          !.pc = IF opened >= 0 /\ allocated THEN "count" ELSE "close"]
    /\ UNCHANGED <<fs, prev, script, config>>
    /\ UNCHANGED fsOthers

\* one iteration of the counting loop:
\* memset(entry, 0, ...); rc = fs_readdir(&dir, entry); if (rc < 0) break;
\* if (entry->name[0] == 0) break; if (matches) (*count)++;
FindCount ==
    /\ op.kind = "find" /\ op.pc = "count"
    /\ \/ \E entry \in FsReaddir(fs, op.abs_path, op.pos, ZeroEntry) :
             op' = IF EndOfDirectory(entry)
                   THEN [op EXCEPT !.rc = 0, !.pc = "close"]
                   ELSE [op EXCEPT
                            !.rc = 0,
                            !.pos = @ + 1,
                            !.count = IF Matches(entry, op.entry_type, op.name)
                                      THEN @ + 1 ELSE @]
       \/ /\ MayFail
          /\ op' = [Failed(op) EXCEPT !.rc = -EIO, !.pc = "close"]
    /\ UNCHANGED <<fs, prev, script, config>>
    /\ UNCHANGED fsOthers

\* (void)k_free(entry); (void)fs_closedir(&dir); if (*count > 0) { ... }
FindClose ==
    /\ op.kind = "find" /\ op.pc = "close"
    /\ op' = [Called(op, "closedir") EXCEPT
                 !.entry = k_free(@),
                 !.dir = "closed",
                 !.pc = IF op.count > 0 THEN "alloc" ELSE "ret"]
    /\ UNCHANGED <<fs, prev, script, config>>
    /\ UNCHANGED fsOthers

\* results = k_calloc(*count, sizeof(struct fs_dirent)); rc = fs_opendir(&dir, path); i = 0;
FindAlloc ==
    /\ op.kind = "find" /\ op.pc = "alloc"
    /\ \E opened \in OpendirResults, allocated \in AllocResults :
          op' = [Opened(op, opened, allocated) EXCEPT
                    !.i = 0,
                    !.results = IF allocated
                                THEN [null |-> FALSE, slot |-> [n \in 1..op.count |-> ZeroEntry]]
                                ELSE [null |-> TRUE, slot |-> <<>>],
                    !.pc = IF opened >= 0 /\ allocated THEN "fill" ELSE "close2"]
    /\ UNCHANGED <<fs, prev, script, config>>
    /\ UNCHANGED fsOthers

\* one iteration of the filling loop, entered while i < *count:
\* rc = fs_readdir(&dir, &results[i]); if (rc < 0) { *count = i; break; }
\* if (matches(results[i])) i++;
FindFill ==
    /\ op.kind = "find" /\ op.pc = "fill"
    /\ \/ /\ op.i >= op.count
          /\ op' = [op EXCEPT !.pc = "close2"]
       \/ /\ op.i < op.count
          /\ \E entry \in FsReaddir(fs, op.abs_path, op.pos, op.results.slot[op.i + 1]) :
                op' = [op EXCEPT
                          !.rc = 0,
                          !.results.slot[op.i + 1] = entry,
                          !.pos = IF EndOfDirectory(entry) THEN @ ELSE @ + 1,
                          !.i = IF Matches(entry, op.entry_type, op.name) THEN @ + 1 ELSE @]
       \/ /\ op.i < op.count /\ MayFail
          /\ op' = [Failed(op) EXCEPT !.rc = -EIO, !.count = op.i, !.pc = "close2"]
    /\ UNCHANGED <<fs, prev, script, config>>
    /\ UNCHANGED fsOthers

\* (void)fs_closedir(&dir); return results;
FindClose2 ==
    /\ op.kind = "find" /\ op.pc = "close2"
    /\ op' = [Called(op, "closedir") EXCEPT !.dir = "closed", !.pc = "ret"]
    /\ UNCHANGED <<fs, prev, script, config>>
    /\ UNCHANGED fsOthers

\* another thread unlinks a file of the directory between the two passes
ConcurrentUnlink ==
    /\ op.kind = "find" /\ op.pc = "alloc"
    /\ fs = op.before
    /\ \E n \in 1..Len(EntryNames) :
          /\ IsFile(fs, Join(op.abs_path, EntryNames[n]))
          /\ fs' = WithoutNode(fs, Join(op.abs_path, EntryNames[n]))
    /\ UNCHANGED <<op, prev, script, config>>
    /\ UNCHANGED fsOthers

(***************************************************************************)
(* fsu_delete_files, fsu_single_entry_exists: the callers of fsu_find      *)
(***************************************************************************)
\* snprintk's output of one character into str[0..max-1]: characters past
\* the buffer are counted only, and the last place takes the terminator
StrOut(ctx, c) ==
    IF ctx.count >= ctx.max THEN [ctx EXCEPT !.count = @ + 1]
    ELSE [ctx EXCEPT !.str[ctx.count] = IF ctx.count = ctx.max - 1 THEN NUL ELSE c,
                     !.count = @ + 1]

RECURSIVE StrOutAll(_, _)
StrOutAll(ctx, chars) ==
    IF chars = <<>> THEN ctx ELSE StrOutAll(StrOut(ctx, Head(chars)), Tail(chars))

SnprintkWritten(ctx) == Min(ctx.count, Max(ctx.max - 1, 0))

\* snprintk returns the number of characters that would have been written
SnprintkCount(ctx) == ctx.count

\* snprintk(str, max, "%s/%s", path, name): the buffer and the value returned
snprintk(str, max, path, name) ==
    LET ctx == StrOutAll([str |-> str, max |-> max, count |-> 0], path \o <<"/">> \o name)
    IN  [str |-> IF ctx.count < ctx.max THEN [ctx.str EXCEPT ![ctx.count] = NUL]
                 ELSE ctx.str,
         rc |-> SnprintkCount(ctx)]

\* fsu_build_full_name on a buffer of max_size bytes holding anything, for a
\* path and a name that are there: the string left in result
fsu_build_full_name(max_size, path, name) ==
    CStr(snprintk(ZeroBuf(max_size), max_size, path, name).str, max_size)

JoinPaths == { <<>>, <<"/", "d">> }
JoinNames == { <<>>, <<"a">>, <<"a", "b">> }

\* a buffer that holds what the caller left in it
DirtyBuf(size) == [n \in 0..(size - 1) |-> "#"]

BuildCall ==
    /\ CanCall("build_full_name")
    /\ \E path \in JoinPaths \cup {NULL}, name \in JoinNames \cup {NULL},
          max_size \in 1..MaxJoinSize :
          op' = OpBase("build_full_name", path)
                @@ [arg_name |-> name, max_size |-> max_size,
                    result |-> DirtyBuf(max_size)]
    /\ script' = Tail(script)
    /\ UNCHANGED <<fs, prev, config>>
    /\ UNCHANGED fsOthers

\* if (path == NULL || name == NULL) return -EPERM;
\* if (result != NULL) memset(result, 0, max_size);
BuildCheck ==
    /\ op.kind = "build_full_name" /\ op.pc = "start"
    /\ op' = IF op.abs_path = NULL \/ op.arg_name = NULL
             THEN [op EXCEPT !.rc = -EPERM, !.pc = "ret"]
             ELSE [op EXCEPT !.result = ZeroBuf(op.max_size), !.pc = "print"]
    /\ UNCHANGED <<fs, prev, script, config>>
    /\ UNCHANGED fsOthers

\* return snprintk(result, max_size, "%s/%s", path, name);
BuildPrint ==
    /\ op.kind = "build_full_name" /\ op.pc = "print"
    /\ LET printed == snprintk(op.result, op.max_size, op.abs_path, op.arg_name)
       IN  op' = [op EXCEPT !.result = printed.str, !.rc = printed.rc, !.pc = "ret"]
    /\ UNCHANGED <<fs, prev, script, config>>
    /\ UNCHANGED fsOthers

\* fsu_build_full_name has returned
BuildDone == op.kind = "build_full_name" /\ op.pc = "ret"

FindWithin(caller, path, name, entry_type) ==
    [op EXCEPT !.kind = "find", !.pc = "start"]
    @@ [caller |-> caller,
        name |-> name, entry_type |-> entry_type,
        count |-> 0, i |-> 0,
        results |-> [null |-> TRUE, slot |-> <<>>],
        entry |-> "none", dir |-> "closed", pos |-> 0]

DeleteFilesCall ==
    /\ CanCall("delete_files")
    /\ \E path \in FindDirs \cup {NULL}, name \in FindNames \cup {NULL} :
          op' = OpBase("delete_files", path)
                @@ [arg_name |-> name,
                    status |-> 0,
                    files_i |-> 0,        \* size_t i of fsu_delete_files
                    removed |-> <<>>,     \* the paths fs_unlink removed, in order
                    pEntries |-> "none",  \* the array fsu_find returned: held, freed or null
                    found_faults |-> 0]   \* failures met by the fsu_find inside
    /\ script' = Tail(script)
    /\ UNCHANGED <<fs, prev, config>>
    /\ UNCHANGED fsOthers

DeleteFilesAnyDirectory(o) == FS_DIR_ENTRY_DIR

\* the entry type fsu_delete_files asks fsu_find for
DeleteFilesEntryType(o) == FS_DIR_ENTRY_FILE

\* if (path == NULL || name == NULL) return -EPERM;
\* pEntries = fsu_find(path, name, &count, FS_DIR_ENTRY_FILE);
DeleteFilesFind ==
    /\ op.kind = "delete_files" /\ op.pc = "start"
    /\ op' = IF op.abs_path = NULL \/ op.arg_name = NULL
             THEN [op EXCEPT !.rc = -EPERM, !.pc = "ret"]
             ELSE FindWithin("delete_files", op.abs_path, op.arg_name,
                             DeleteFilesEntryType(op))
    /\ UNCHANGED <<fs, prev, script, config>>
    /\ UNCHANGED fsOthers

\* struct fs_dirent *pEntries = fsu_find(...): the array, or NULL
Returned(results) == IF results.null THEN "null" ELSE "held"

\* fsu_find returned: if (count == 0) status = -ENOENT; else the unlink loop
DeleteFilesFound ==
    /\ Nested(op) /\ op.pc = "ret" /\ op.caller = "delete_files"
    /\ op' = [op EXCEPT !.kind = "delete_files",
                        !.found_faults = op.faults,
                        !.pEntries = Returned(op.results),
                        !.status = IF op.count = 0 THEN -ENOENT ELSE @,
                        !.pc = IF op.count = 0 THEN "free" ELSE "unlink"]
    /\ UNCHANGED <<fs, prev, script, config>>
    /\ UNCHANGED fsOthers

\* pEntries[i].name: the name stored in the slot; with pEntries == NULL the
\* read is of address zero and gives any string
SlotNames(o) ==
    IF o.results.null THEN {EntryNames[n] : n \in 1..Len(EntryNames)} \cup {<<>>}
    ELSE {o.results.slot[o.files_i + 1].name}

\* one iteration of while (i < count): build the name, status = fs_unlink(abs_path);
\* if (status == 0) i += 1; else break;
DeleteFilesUnlink ==
    /\ op.kind = "delete_files" /\ op.pc = "unlink"
    /\ \/ /\ op.files_i >= op.count
          /\ op' = [op EXCEPT !.pc = "free"]
          /\ fs' = fs
       \/ /\ op.files_i < op.count
          /\ \E name \in SlotNames(op) :
                LET abs_path == fsu_build_full_name(FSU_MAX_ABS_PATH_SIZE, op.abs_path, name)
                    r == FsUnlink(fs, abs_path)
                IN  /\ op' = [Called(op, "unlink") EXCEPT
                                 !.status = r.rc,
                                 !.files_i = IF r.rc = 0 THEN @ + 1 ELSE @,
                                 !.removed = IF r.rc = 0 THEN Append(@, abs_path) ELSE @,
                                 !.pc = IF r.rc = 0 THEN "unlink" ELSE "free"]
                    /\ fs' = r.ns
       \/ /\ op.files_i < op.count /\ MayFail
          /\ op' = [Failed(Called(op, "unlink")) EXCEPT !.status = -EIO, !.pc = "free"]
          /\ fs' = fs
       \/ /\ op.files_i < op.count /\ op.results.null
          /\ op' = [op EXCEPT !.pc = "trap"]
          /\ fs' = fs
    /\ UNCHANGED <<prev, script, config>>
    /\ UNCHANGED fsOthers

FreeFoundKeeps(entry) == entry

\* fsu_free_found(entry): if (entry != NULL) k_free(entry);
fsu_free_found(entry) == IF entry # "null" THEN k_free(entry) ELSE entry

\* the caller of fsu_find releases what it returned: fsu_free_found(results)
FreeFoundCall ==
    /\ CanCall("free_found") /\ prev.kind = "find"
    /\ op' = [OpBase("free_found", prev.abs_path) EXCEPT !.rc = 0, !.pc = "ret"]
             @@ [pEntries |-> fsu_free_found(Returned(prev.results))]
    /\ script' = Tail(script)
    /\ UNCHANGED <<fs, prev, config>>
    /\ UNCHANGED fsOthers

DeleteFilesReturnsCount(o) == o.count

\* return i;
DeleteFilesReturnValue(o) == o.files_i

\* fsu_free_found(pEntries); return i;
DeleteFilesFree ==
    /\ op.kind = "delete_files" /\ op.pc = "free"
    /\ op' = [op EXCEPT !.pEntries = fsu_free_found(@),
                        !.rc = DeleteFilesReturnValue(op), !.pc = "ret"]
    /\ UNCHANGED <<fs, prev, script, config>>
    /\ UNCHANGED fsOthers

SingleEntryCall ==
    /\ CanCall("single_entry")
    /\ \E path \in FindDirs \cup {NULL}, name \in FindNames \cup {NULL},
          entry_type \in {FS_DIR_ENTRY_FILE, FS_DIR_ENTRY_DIR} :
          op' = OpBase("single_entry", path)
                @@ [arg_name |-> name, arg_type |-> entry_type,
                    status |-> -EPERM, pEntries |-> "none", found_faults |-> 0]
    /\ script' = Tail(script)
    /\ UNCHANGED <<fs, prev, config>>
    /\ UNCHANGED fsOthers

\* if (path == NULL || name == NULL) return -EPERM;
\* pEntries = fsu_find(path, name, &count, entry_type);
SingleEntryFind ==
    /\ op.kind = "single_entry" /\ op.pc = "start"
    /\ op' = IF op.abs_path = NULL \/ op.arg_name = NULL
             THEN [op EXCEPT !.rc = -EPERM, !.pc = "ret"]
             ELSE FindWithin("single_entry", op.abs_path, op.arg_name, op.arg_type)
    /\ UNCHANGED <<fs, prev, script, config>>
    /\ UNCHANGED fsOthers

\* else if (pEntries != NULL) status = pEntries->size;  (status stays -EPERM otherwise)
SizeOfFirst(o) == IF ~o.results.null THEN o.results.slot[1].size ELSE o.status

\* if (count == 0) status = -ENOENT; else if (count != 1) status = -EINVAL;
\* else if (pEntries != NULL) status = pEntries->size;
\* fsu_free_found(pEntries); return status;
SingleEntryFound ==
    /\ Nested(op) /\ op.pc = "ret" /\ op.caller = "single_entry"
    /\ LET status == IF op.count = 0 THEN -ENOENT
                     ELSE IF op.count # 1 THEN -EINVAL
                     ELSE SizeOfFirst(op)
       IN  op' = [op EXCEPT !.kind = "single_entry",
                            !.found_faults = op.faults,
                            !.status = status,
                            !.pEntries = fsu_free_found(Returned(op.results)),
                            !.rc = status]
    /\ UNCHANGED <<fs, prev, script, config>>
    /\ UNCHANGED fsOthers

(***************************************************************************)
(* Claims about the callers of fsu_find (SpecEntries)                      *)
(***************************************************************************)
\* fsu_delete_files returned, its fsu_find having met no failure
DeleteFilesDone ==
    /\ op.kind = "delete_files" /\ op.pc = "ret"
    /\ op.abs_path # NULL /\ op.arg_name # NULL
    /\ op.found_faults = 0

\* the path of the n-th file fsu_find reported
FoundPath(o, n) == o.abs_path \o <<"/">> \o o.results.slot[n].name

Unlinks(o) == Len(SelectSeq(o.calls, LAMBDA c : c = "unlink"))

FindDone == op.kind = "find" /\ op.pc = "ret"

\* the entries the directory held at some time during the call
EntriesSeen(o) ==
    {Listing(o.before, o.abs_path)[n] : n \in 1..Len(Listing(o.before, o.abs_path))}

\* C3: when a file of the directory was removed between the two passes and
\* no storage call or allocation failed, every slot below the reported count
\* holds an entry of the directory that matches the type and the name.
C3_CountShrunkToFilledSlots ==
    (FindDone /\ op.faults = 0 /\ ~op.results.null /\ fs # op.before) =>
        \A n \in 1..op.count :
            /\ op.results.slot[n] \in EntriesSeen(op)
            /\ Matches(op.results.slot[n], op.entry_type, op.name)

\* name holds s as a substring
NameContains(name, s) ==
    \E a \in 0..(Len(name) - Len(s)) : \A n \in 1..Len(s) : name[a + n] = s[n]

\* the entries of the directory of the wanted type whose name holds the
\* wanted substring, in enumeration order
Wanted(o) ==
    SelectSeq(Listing(o.before, o.abs_path),
              LAMBDA e : e.type = o.entry_type /\ NameContains(e.name, o.name))

\* fsu_find returned from a directory nobody changed, with no failure
FindQuietDone ==
    /\ FindDone /\ op.faults = 0 /\ fs = op.before
    /\ op.abs_path # NULL /\ op.name # NULL

\* C12: on a directory that is not modified during the call and with no
\* storage or allocation failure, fsu_find reports as count the number of
\* entries of the wanted type whose name holds the substring, the slots are
\* those entries in enumeration order, and an empty substring selects every
\* entry of the wanted type.
C12_FindReturnsTheMatches ==
    FindQuietDone =>
        /\ op.count = Len(Wanted(op))
        /\ op.count > 0 => (~op.results.null /\ op.results.slot = Wanted(op))
        /\ op.name = <<>> =>
              op.count = Cardinality({e \in EntriesSeen(op) : e.type = op.entry_type})

\* two of the three entries of /d are found by a substring of their names
C12_Witness ==
    /\ FindQuietDone /\ op.count = 2 /\ op.name = <<"a">>
    /\ Len(Listing(op.before, op.abs_path)) = 3

\* C29 as stated: fsu_find always terminates; for every directory content,
\* and also when entries are removed between the counting pass and the filling
\* pass, a call of fsu_find returns, provided each storage call returns.
C29_FindAlwaysReturns == (op.kind = "find") ~> FindDone

\* C29, for a directory nobody changes during the call: every call of
\* fsu_find returns or has seen its directory change.
C29_FindReturnsFromQuietDirectory ==
    (op.kind = "find") ~> (FindDone \/ (op.kind = "find" /\ fs # op.before))

\* fsu_find returned from an unchanged directory after its filling pass
\* stopped at the slot count
C29_Witness ==
    /\ FindQuietDone /\ op.count = 1 /\ op.i = op.count
    /\ op.name = <<"b">> /\ op.entry_type = FS_DIR_ENTRY_DIR
    /\ ~op.results.null /\ op.pos = Len(Listing(op.before, op.abs_path))

\* C4: when k_calloc of the result array fails, fsu_find returns NULL and
\* reports a count of zero.
C4_FailedAllocationReportsNothing ==
    (FindDone /\ op.results.null) => op.count = 0

(***************************************************************************)
(* fsu_sha256_abs, fsu_crc32_abs                                           *)
(***************************************************************************)
\* a uint32_t as its bits, bit 0 the least significant
Bit32 == 0..31
Zero32 == [b \in Bit32 |-> 0]
Ones32 == [b \in Bit32 |-> 1]
Not32(x) == [b \in Bit32 |-> 1 - x[b]]
Xor32(x, y) == [b \in Bit32 |-> (x[b] + y[b]) % 2]
ShiftRight32(x) == [b \in Bit32 |-> IF b = 31 THEN 0 ELSE x[b + 1]]
ByteBits(byte) == [b \in Bit32 |-> IF b < 8 THEN (byte \div (2 ^ b)) % 2 ELSE 0]

\* the polynomial 0xedb88320 of crc32_ieee
Crc32Poly == [b \in Bit32 |-> IF b \in {31, 30, 29, 27, 26, 24, 23, 21, 20, 19, 15, 9, 8, 5}
                              THEN 1 ELSE 0]

RECURSIVE Crc32Shift(_, _)
Crc32Shift(crc, k) ==
    IF k = 0 THEN crc
    ELSE Crc32Shift(IF crc[0] = 1 THEN Xor32(ShiftRight32(crc), Crc32Poly)
                    ELSE ShiftRight32(crc), k - 1)

RECURSIVE Crc32Bytes(_, _)
Crc32Bytes(crc, data) ==
    IF data = << >> THEN crc
    ELSE Crc32Bytes(Crc32Shift(Xor32(crc, ByteBits(Head(data))), 8), Tail(data))

\* crc32_ieee_update(crc, data, len): crc = ~crc; one table step per nibble; return ~crc
crc32_ieee_update(crc, data) == Not32(Crc32Bytes(Not32(crc), data))

\* uint8_t hash[FSU_HASH_SIZE]: all zero, what the caller left in it, or the
\* SHA-256 digest of a message
ZeroHash == [bytes |-> "zero", of |-> <<>>]
CallerHash == [bytes |-> "caller", of |-> <<>>]
Sha256(message) == [bytes |-> "digest", of |-> message]

\* the error codes of mbedtls_sha256_starts, _update and _finish
MbedtlsErrors == {-116}

\* the results of an mbedtls_sha256 call
Sha256Results == {0} \cup (IF MayFail THEN MbedtlsErrors ELSE {})

DigestKinds == {"sha256", "crc32"}
IsDigest == op.kind \in DigestKinds

\* CONFIG_FSU_HASH, CONFIG_FSU_CHECKSUM
DigestEnabled(o) ==
    IF o.kind = "sha256" THEN config.FSU_HASH ELSE config.FSU_CHECKSUM

\* CONFIG_FSU_HASH_CHUNK_SIZE, CONFIG_FSU_CHECKSUM_CHUNK_SIZE
ChunkSize(o) ==
    IF o.kind = "sha256" THEN CONFIG_FSU_HASH_CHUNK_SIZE ELSE CONFIG_FSU_CHECKSUM_CHUNK_SIZE

\* a call of the accumulator (mbedtls_sha256_*, crc32_ieee_update, or the
\* clearing of *checksum) with the bytes it was given
Acc(o, call, bytes) == [o EXCEPT !.acc = Append(@, [call |-> call, bytes |-> bytes])]

\* the arguments and locals of fsu_sha256_abs and fsu_crc32_abs
DigestLocals(size) ==
    [size |-> size, rem |-> size,
     hash |-> CallerHash, checksum |-> Ones32,
     file_pos |-> 0,            \* the position of struct fs_file_t f
     ctx |-> <<>>,              \* the bytes the SHA-256 context took in
     acc |-> <<>>,              \* the accumulator's calls so far
     open_rc |-> 0,             \* what fs_open returned
     reads |-> <<>>,            \* each fs_read: bytes asked and got
     pBuffer |-> "none", pCtx |-> "none"]

DigestCall ==
    /\ \E kind \in DigestKinds, path \in FilePaths, size \in 0..(MaxFileLen + 1) :
          /\ CanCall(kind)
          /\ op' = OpBase(kind, path) @@ DigestLocals(size)
    /\ script' = Tail(script)
    /\ UNCHANGED <<fs, prev, config>>
    /\ UNCHANGED fsOthers

DigestOpenFlagsCreate == {"read", "create"}

\* fs_open flags of the digests: FS_O_READ
DigestOpenFlags == {"read"}

DigestAfterOpenCloses(rc) == IF rc < 0 THEN "close" ELSE "alloc"

\* if (rc < 0) { return rc; }
DigestAfterOpen(rc) == IF rc < 0 THEN "ret" ELSE "alloc"

\* memset(&hash[0], 0, FSU_HASH_SIZE) or *checksum = 0;
\* #ifdef CONFIG_FSU_HASH / CONFIG_FSU_CHECKSUM: rc = fs_open(&f, abs_path, FS_O_READ);
\* if (rc < 0) return rc;
DigestOpen ==
    /\ IsDigest /\ op.pc = "start"
    /\ LET zeroed == IF op.kind = "sha256" THEN [op EXCEPT !.hash = ZeroHash]
                     ELSE Acc([op EXCEPT !.checksum = Zero32], "init", <<>>)
       IN  \/ /\ ~DigestEnabled(op)
              /\ op' = [zeroed EXCEPT !.pc = "ret"]
              /\ fs' = fs
           \/ /\ DigestEnabled(op)
              /\ LET r == FsOpen(fs, op.abs_path, DigestOpenFlags)
                 IN  /\ op' = [Called(zeroed, "open") EXCEPT
                                  !.rc = r.rc, !.open_rc = r.rc,
                                  !.pc = DigestAfterOpen(r.rc)]
                     /\ fs' = r.ns
           \/ /\ DigestEnabled(op) /\ MayFail
              /\ op' = [Failed(Called(zeroed, "open")) EXCEPT
                           !.rc = -EIO, !.open_rc = -EIO, !.pc = DigestAfterOpen(-EIO)]
              /\ fs' = fs
    /\ UNCHANGED <<prev, script, config>>
    /\ UNCHANGED fsOthers

\* pBuffer = k_malloc(chunk size); pCtx = k_malloc(sizeof(mbedtls_sha256_context));
\* if both are there: mbedtls_sha256_init(pCtx); rc = mbedtls_sha256_starts(pCtx, 0);
\* else rc = -ENOMEM;
DigestAlloc ==
    /\ IsDigest /\ op.pc = "alloc"
    /\ \/ \E started \in (IF op.kind = "sha256" THEN Sha256Results ELSE {0}) :
             op' = [(IF op.kind # "sha256" THEN op
                     ELSE Acc(Acc(IF started # 0 THEN Failed(op) ELSE op, "init", <<>>),
                              "starts", <<>>)) EXCEPT
                       !.pBuffer = "allocated",
                       !.pCtx = IF op.kind = "sha256" THEN "allocated" ELSE @,
                       !.rc = IF op.kind = "sha256" THEN started ELSE @,
                       !.pc = "loop"]
       \/ /\ MayFail
          /\ \E lost \in (IF op.kind = "sha256" THEN {"pBuffer", "pCtx"} ELSE {"pBuffer"}) :
                op' = [Failed(op) EXCEPT
                          !.pBuffer = IF lost = "pBuffer" THEN "none" ELSE "allocated",
                          !.pCtx = IF op.kind = "sha256" /\ lost = "pBuffer"
                                   THEN "allocated" ELSE "none",
                          !.rc = -ENOMEM,
                          !.pc = "close"]
    /\ UNCHANGED <<fs, prev, script, config>>
    /\ UNCHANGED fsOthers

\* fs_read(&f, pBuffer, length) when the storage does not fail
FsRead(ns, o, length) == ReadAt(ns[Canon(o.abs_path)].data, o.file_pos, length)

\* the digest after a chunk was read in full:
\* rc = mbedtls_sha256_update(pCtx, pBuffer, length), or
\* *checksum = crc32_ieee_update(*checksum, pBuffer, bytes_read); then rem -= length;
ChunkTaken(o, chunk, updated) ==
    [Acc(o, "update", chunk) EXCEPT !.ctx = IF o.kind = "sha256" /\ updated = 0 THEN @ \o chunk ELSE @,
              !.checksum = IF o.kind = "crc32" THEN crc32_ieee_update(@, chunk) ELSE @,
              !.rc = IF o.kind = "sha256" THEN updated ELSE @,
              !.rem = @ - Len(chunk),
              !.file_pos = @ + Len(chunk)]

DigestLengthRemainder(o) == o.rem

\* length = MIN(rem, CONFIG_FSU_HASH_CHUNK_SIZE);
DigestLength(o) == Min(o.rem, ChunkSize(o))

\* fs_read was called for length bytes and returned got
ReadCalled(o, length, got) ==
    [Called(o, "read") EXCEPT !.reads = Append(@, [asked |-> length, got |-> got])]

ReadNotFailed(got, length) == got >= 0

\* if (bytes_read == length)
ReadInFull(got, length) == got = length

\* one iteration of while (rc == 0 && rem > 0) { length = MIN(rem, chunk size);
\* bytes_read = fs_read(&f, pBuffer, length);
\* if (bytes_read == length) { ... } else { rc = -EIO; } }
DigestChunk ==
    /\ IsDigest /\ op.pc = "loop"
    /\ \/ /\ ~(op.rc = 0 /\ op.rem > 0)
          /\ op' = [op EXCEPT !.pc = IF op.kind = "sha256" THEN "finish" ELSE "close"]
       \/ /\ op.rc = 0 /\ op.rem > 0
          /\ LET length == DigestLength(op)
                 chunk == FsRead(fs, op, length)
                 read == ReadCalled(op, length, Len(chunk))
             IN  IF ReadInFull(Len(chunk), length)
                 THEN \E updated \in (IF op.kind = "sha256" THEN Sha256Results ELSE {0}) :
                         op' = ChunkTaken(IF updated # 0 THEN Failed(read) ELSE read,
                                          chunk, updated)
                 ELSE op' = [read EXCEPT !.rc = -EIO, !.file_pos = @ + Len(chunk)]
       \/ /\ op.rc = 0 /\ op.rem > 0 /\ MayFail
          /\ ~ReadInFull(-EIO, DigestLength(op))
          /\ op' = [Failed(ReadCalled(op, DigestLength(op), -EIO)) EXCEPT !.rc = -EIO]
    /\ UNCHANGED <<fs, prev, script, config>>
    /\ UNCHANGED fsOthers

\* if (rc == 0 && rem == 0) { rc = mbedtls_sha256_finish(pCtx, hash); }
\* mbedtls_sha256_finish writes the digest only when it succeeds
DigestFinish ==
    /\ op.kind = "sha256" /\ op.pc = "finish"
    /\ \/ /\ ~(op.rc = 0 /\ op.rem = 0)
          /\ op' = [op EXCEPT !.pc = "close"]
       \/ /\ op.rc = 0 /\ op.rem = 0
          /\ \E finished \in Sha256Results :
                op' = [Acc(IF finished # 0 THEN Failed(op) ELSE op, "finish", <<>>) EXCEPT
                          !.hash = IF finished = 0 THEN Sha256(op.ctx) ELSE @,
                          !.rc = finished,
                          !.pc = "close"]
    /\ UNCHANGED <<fs, prev, script, config>>
    /\ UNCHANGED fsOthers

\* if (pBuffer != NULL) k_free(pBuffer); if (pCtx != NULL) k_free(pCtx);
\* (void)fs_close(&f); return rc;
DigestClose ==
    /\ IsDigest /\ op.pc = "close"
    /\ op' = [Called(op, "close") EXCEPT
                 !.pBuffer = IF @ # "none" THEN k_free(@) ELSE @,
                 !.pCtx = IF @ # "none" THEN k_free(@) ELSE @,
                 !.pc = "ret"]
    /\ UNCHANGED <<fs, prev, script, config>>
    /\ UNCHANGED fsOthers

\* the files a directory of a namespace holds
FilesIn(ns, dir) == {q \in DOMAIN ns : q # Root /\ Parent(q) = Canon(dir) /\ IsFile(ns, q)}

\* fsu_delete_files(dir, "") returned, no storage call or allocation of the
\* call having failed
DeleteAllDone ==
    /\ op.kind = "delete_files" /\ op.pc = "ret"
    /\ op.abs_path # NULL /\ op.arg_name = <<>>
    /\ op.faults = 0

\* C24: with no storage failure fsu_delete_files(dir, "") removes every file
\* of dir, leaves every sub-directory of dir (and everything else) in place,
\* and returns the number of files removed, 0 when dir holds no file.
C24_DeleteAllFiles ==
    DeleteAllDone =>
        /\ op.rc = Cardinality(FilesIn(op.before, op.abs_path))
        /\ DOMAIN fs = DOMAIN op.before \ FilesIn(op.before, op.abs_path)
        /\ \A q \in DOMAIN fs : fs[q] = op.before[q]

\* two files removed from a directory that also holds a sub-directory
C24_Witness ==
    /\ DeleteAllDone /\ op.rc = 2
    /\ \E q \in DOMAIN fs : q # Root /\ Parent(q) = Canon(op.abs_path) /\ IsDir(fs, q)

\* fsu_single_entry_exists returned after calling fsu_find
SingleEntryDone ==
    /\ op.kind = "single_entry" /\ op.pc = "ret"
    /\ op.abs_path # NULL /\ op.arg_name # NULL

\* the array fsu_find returned is not held any more
Released(o) == o.pEntries \in {"freed", "null"}

\* the first slot fsu_find reported holds an entry of the directory, and the
\* result is that entry's size
SizeOfTheEntry(o) ==
    /\ ~o.results.null
    /\ Exists(o.before, FoundPath(o, 1))
    /\ o.rc = Len(o.before[Canon(FoundPath(o, 1))].data)

\* C18 (as stated): fsu_single_entry_exists returns -ENOENT when fsu_find
\* reports no match, -EINVAL when it reports more than one, and the size of
\* the one matching entry when it reports exactly one; the array fsu_find
\* returned is released in every case.
C18_SingleEntrySizeOrError ==
    SingleEntryDone =>
        /\ op.count = 0 => op.rc = -ENOENT
        /\ op.count > 1 => op.rc = -EINVAL
        /\ op.count = 1 => SizeOfTheEntry(op)
        /\ Released(op)

\* C18: what holds on every path: the two errors, the release, the size of
\* the entry when fsu_find met no failure; with a count of one, the size
\* field of the first slot when there is an array and -EPERM when not.
C18_SingleEntrySizeWhenArray ==
    SingleEntryDone =>
        /\ op.count = 0 => op.rc = -ENOENT
        /\ op.count > 1 => op.rc = -EINVAL
        /\ (op.count = 1 /\ op.found_faults = 0) => SizeOfTheEntry(op)
        /\ (op.count = 1 /\ ~op.results.null) => op.rc = op.results.slot[1].size
        /\ (op.count = 1 /\ op.results.null) => op.rc = -EPERM
        /\ Released(op)

\* the one file of the directory was found and its size returned
C18_Witness ==
    /\ SingleEntryDone /\ op.count = 1 /\ op.found_faults = 0
    /\ op.arg_type = FS_DIR_ENTRY_FILE /\ op.rc = 1 /\ op.pEntries = "freed"

(***************************************************************************)
(* Claims about the digests (SpecDigest)                                   *)
(***************************************************************************)
DigestFailed == IsDigest /\ op.pc = "ret" /\ op.rc # 0

\* the output of the digest that was called is all zero
OutputZero(o) == IF o.kind = "sha256" THEN o.hash = ZeroHash ELSE o.checksum = Zero32

\* C5: whenever fsu_sha256_abs or fsu_crc32_abs returns an error, the hash
\* or the checksum it was given is all zero, also when chunks were processed
\* before the failure.
C5_OutputZeroOnError == DigestFailed => OutputZero(op)

\* the accumulator is initialized first, mbedtls_sha256_starts follows at
\* once, and mbedtls_sha256_finish is the last call made
AccumulatorOrder(o) ==
    \A n \in 1..Len(o.acc) :
        /\ (o.acc[n].call = "init") <=> (n = 1)
        /\ (o.acc[n].call = "starts") <=> (n = 2 /\ o.kind = "sha256")
        /\ (o.acc[n].call = "finish") => (n = Len(o.acc) /\ o.kind = "sha256")

RECURSIVE Fed(_)
\* the bytes given to the accumulator's updates, in the order they were given
Fed(acc) ==
    IF acc = <<>> THEN <<>>
    ELSE (IF Head(acc).call = "update" THEN Head(acc).bytes ELSE <<>>) \o Fed(Tail(acc))

\* the first size bytes of the file the digest was called on
FirstBytes(o) == SubSeq(o.before[Canon(o.abs_path)].data, 1, o.size)

DigestSucceeded == IsDigest /\ op.pc = "ret" /\ op.rc = 0

CallCount(o, name) == Cardinality({n \in 1..Len(o.calls) : o.calls[n] = name})

\* a digest that is configured in has returned
DigestDone == IsDigest /\ op.pc = "ret" /\ DigestEnabled(op)

\* C16: once fsu_sha256_abs or fsu_crc32_abs opened the file it closes it
\* exactly once, as its last storage call, on every path to its return; when
\* fs_open fails it returns that error at once, with no read and no close.
C16_DigestClosesWhatItOpened ==
    DigestDone =>
        /\ op.calls # <<>> /\ op.calls[1] = "open" /\ CallCount(op, "open") = 1
        /\ op.open_rc >= 0 =>
              /\ CallCount(op, "close") = 1
              /\ op.calls[Len(op.calls)] = "close"
        /\ op.open_rc < 0 => (op.rc = op.open_rc /\ op.calls = <<"open">>)

C16_Witness ==
    /\ DigestDone /\ op.open_rc >= 0
    /\ op.rc = -ENOMEM /\ op.calls = <<"open", "close">>

RECURSIVE Asked(_)
\* the bytes the fs_read calls asked for, in all
Asked(reads) == IF reads = <<>> THEN 0 ELSE Head(reads).asked + Asked(Tail(reads))

\* the last fs_read of the digest did not return what was asked
LastReadShort(o) ==
    o.reads # <<>> /\ o.reads[Len(o.reads)].got # o.reads[Len(o.reads)].asked

ReadBackDone ==
    /\ op.pc = "ret" /\ op.kind = "read" /\ op.faults = 0
    /\ prev.kind = "write" /\ prev.rc >= 0

\* C1: write(path, data, N) that returns success, followed immediately by
\* read(path, 0, buf, N), reproduces data byte-for-byte, and size(path) = N,
\* whatever the prior state of path (also a prior file longer than N).
C1_WriteReadRoundTrip ==
    ReadBackDone =>
        /\ op.rc = prev.size
        /\ op.data = prev.data
        /\ GetFileSizeAbs(fs, prev.abs_path, TRUE) = prev.size

\* fsu_read_abs_block has returned from a call that reached fs_stat
ReadStatDone ==
    /\ op.pc = "ret" /\ op.kind = "read"
    /\ op.calls # <<>> /\ op.calls[1] = "stat"

\* C19: fsu_read_abs_block returns the error of fs_stat when fs_stat fails
\* (-ENOENT for a path that does not exist) and -EISDIR when the entry is not
\* a file, and in both cases makes no fs_open, fs_seek, fs_read or fs_close.
C19_ReadStopsAfterStat ==
    ReadStatDone =>
        /\ (~Exists(op.before, op.abs_path) /\ op.faults = 0) => op.rc = -ENOENT
        /\ (IsDir(op.before, op.abs_path) /\ op.faults = 0) => op.rc = -EISDIR
        /\ ~IsFile(op.before, op.abs_path) => op.calls = <<"stat">>
        /\ op.calls = <<"stat">> => op.rc \in {-ENOENT, -EISDIR, -EIO}
        /\ Len(op.calls) > 1 =>
              (IsFile(op.before, op.abs_path) /\ op.calls[2] = "open")

C19_Witness ==
    /\ ReadStatDone /\ IsDir(op.before, op.abs_path)
    /\ op.rc = -EISDIR /\ op.calls = <<"stat">> /\ op.entry = "freed"

\* fsu_read_abs_block has returned from a call whose fs_open succeeded
ReadOpenedDone ==
    /\ op.pc = "ret" /\ op.kind = "read"
    /\ CallCount(op, "open") = 1 /\ op.open_rc >= 0

\* C30 as stated: in fsu_read_abs_block every successful fs_open is followed
\* by exactly one fs_close of that handle before the function returns, on
\* every path: successful read, failed read, and failed seek to a nonzero
\* offset.
C30_ReadClosesWhatItOpened ==
    ReadOpenedDone =>
        (CallCount(op, "close") = 1 /\ op.calls[Len(op.calls)] = "close")

\* C30, as the code behaves: after a successful fs_open the function ends
\* with exactly one fs_close, after its fs_read, whether the read succeeded
\* or failed; when the fs_seek to a nonzero offset fails it returns that
\* error with no fs_read and no fs_close.
C30_ReadClosesUnlessSeekFailed ==
    ReadOpenedDone =>
        IF CallCount(op, "read") = 1
        THEN /\ CallCount(op, "close") = 1
             /\ op.calls[Len(op.calls)] = "close"
             /\ op.calls[Len(op.calls) - 1] = "read"
        ELSE /\ op.offset # 0 /\ op.calls = <<"stat", "open", "seek">>
             /\ op.rc < 0

\* a read at a nonzero offset whose fs_read failed was closed
C30_Witness ==
    /\ ReadOpenedDone /\ op.offset # 0 /\ op.rc = -EIO
    /\ op.calls = <<"stat", "open", "seek", "read", "close">>
    /\ op.close_rc = 0 /\ op.faults = 1

\* fsu_read_abs_block or fsu_wa_abs has returned from a call that reached
\* its fs_close
ClosedDone ==
    /\ op.pc = "ret" /\ op.kind \in {"read", "write", "append"}
    /\ \E n \in 1..Len(op.calls) : op.calls[n] = "close"

\* the rewrite size check of fsu_wa_abs replaced a successful result
SizeCheckFailed(o) ==
    /\ o.kind = "write" /\ config.FSU_REWRITE_SIZE_CHECK
    /\ o.rc = -EIO

\* C20: in fsu_read_abs_block and fsu_wa_abs a failure of fs_close is the
\* result if and only if the fs_read or fs_write before it succeeded; when
\* that step failed (a short write counting as -ENOSPC) its error is the
\* result and the error of fs_close is dropped.
C20_CloseErrorOnlyAfterSuccess ==
    ClosedDone =>
        /\ op.step_rc < 0 => op.rc = op.step_rc
        /\ (op.step_rc >= 0 /\ op.close_rc < 0) => op.rc = op.close_rc
        /\ (op.step_rc >= 0 /\ op.close_rc >= 0) =>
              (op.rc = op.step_rc \/ SizeCheckFailed(op))
        /\ op.kind \in {"write", "append"} => op.step_rc \in {op.size, -ENOSPC, -EIO}

\* a short write was followed by a failed close
C20_Witness ==
    /\ ClosedDone /\ op.kind = "write"
    /\ op.step_rc = -ENOSPC /\ op.close_rc = -EIO /\ op.rc = -ENOSPC

\* fsu_wa_abs has returned in a build with CONFIG_FSU_REWRITE_SIZE_CHECK
WaCheckedDone ==
    /\ op.pc = "ret" /\ IsWa /\ op.abs_path # NULL
    /\ config.FSU_REWRITE_SIZE_CHECK

\* the size check of fsu_wa_abs ran: it is the call's only fs_stat
SizeChecked(o) == o.calls # <<>> /\ o.calls[Len(o.calls)] = "stat"

\* C21: with CONFIG_FSU_REWRITE_SIZE_CHECK a write never returns success
\* when the size of the file differs from the size requested, it returns
\* -EIO; the check is made for a write only, never for an append, and only
\* when the write and its close did not fail.
C21_RewriteSizeCheck ==
    WaCheckedDone =>
        /\ (op.kind = "write" /\ op.rc >= 0) =>
              (op.rc = op.size /\ GetFileSizeAbs(fs, op.abs_path, TRUE) = op.size)
        /\ (op.kind = "write" /\ op.step_rc >= 0 /\ op.close_rc >= 0
                /\ CallCount(op, "close") = 1
                /\ GetFileSizeAbs(fs, op.abs_path, TRUE) # op.size) => op.rc = -EIO
        /\ SizeChecked(op) =>
              (op.kind = "write" /\ op.step_rc >= 0 /\ op.close_rc >= 0)
        /\ (CallCount(op, "close") = 1 /\ (op.step_rc < 0 \/ op.close_rc < 0)) =>
              (~SizeChecked(op) /\ op.rc = CloseResult(op.step_rc, op.close_rc))

\* fs_truncate failed on a longer file, the write and the close succeeded,
\* and the size check turned the result into -EIO
C21_Witness ==
    /\ WaCheckedDone /\ op.kind = "write" /\ SizeChecked(op)
    /\ op.step_rc = op.size /\ op.close_rc = 0
    /\ GetFileSizeAbs(fs, op.abs_path, TRUE) > op.size
    /\ op.rc = -EIO

\* fsu_wa_abs has returned
WaDone == op.pc = "ret" /\ IsWa

\* C22: fsu_wa_abs (write and append) returns -ENOSPC whenever fs_write
\* transferred fewer bytes than requested, and returns the number of bytes
\* written, which is size, only when fs_write transferred all of them and
\* fs_close succeeded.
C22_ShortWriteIsDiskFull ==
    WaDone =>
        /\ (CallCount(op, "write") = 1 /\ op.written >= 0 /\ op.written < op.size)
              => op.rc = -ENOSPC
        /\ op.rc >= 0 =>
              /\ op.rc = op.size
              /\ CallCount(op, "write") = 1 /\ op.written = op.size
              /\ CallCount(op, "close") = 1 /\ op.close_rc = 0

\* an append of two bytes of which fs_write took one
C22_Witness ==
    /\ WaDone /\ op.kind = "append" /\ op.size = 2 /\ op.written = 1
    /\ op.rc = -ENOSPC
    /\ IsFile(op.before, op.abs_path)
    /\ Len(fs[Canon(op.abs_path)].data) = Len(op.before[Canon(op.abs_path)].data) + 1

(***************************************************************************)
(* Claims about fsu_mkdir_abs (SpecMkdir)                                  *)
(***************************************************************************)
\* fsu_mkdir_abs has returned for a path that normalized and that has an
\* existing file as one of its intermediate segments
MkdirBelowFileDone ==
    /\ op.pc = "ret" /\ op.kind = "mkdir"
    /\ op.abs_path # NULL /\ fsu_simplify_path(op.abs_path).rc >= 0
    /\ BelowFile(op.before, MkdirPath(op))

\* C6 (as stated): mkdir_recursive called, recursive or not, on a path one of
\* whose intermediate segments is an existing file fails with NotADirectory
\* (when no storage call or allocation fails for another reason).
C6_FileSegmentIsNotADirectory ==
    (MkdirBelowFileDone /\ op.faults = 0) => op.rc = -ENOTDIR

\* C6 (amended): such a call fails with a negative error and creates nothing;
\* the error is the one the storage API returned last (the failed
\* directory-create, or the initial stat when no create was issued), so it is
\* NotADirectory only when the storage reports it so.
C6_FileSegmentFailsWithStorageError ==
    MkdirBelowFileDone =>
        /\ op.rc < 0
        /\ fs = op.before /\ op.created = <<>>
        /\ op.faults = 0 => op.rc = op.last

C6_Witness ==
    /\ MkdirBelowFileDone /\ op.faults = 0
    /\ op.rc = -ENOENT
    /\ op.calls # <<>> /\ op.calls[Len(op.calls)] = "mkdir"

\* fsu_mkdir_abs has returned for a path that normalized, no storage call or
\* allocation of the call having failed for another reason
MkdirDone ==
    /\ op.pc = "ret" /\ op.kind = "mkdir"
    /\ op.abs_path # NULL /\ fsu_simplify_path(op.abs_path).rc >= 0
    /\ op.faults = 0

\* the sub-paths of a normalized path that end with one of its segments,
\* shallowest first
SegmentPaths(path) ==
    LET ends == {n \in 2..Len(path) :
                    path[n] # "/" /\ (n = Len(path) \/ path[n + 1] = "/")}
        Nth[k \in 0..Len(path)] ==
            IF k = 0 THEN 0
            ELSE CHOOSE n \in ends :
                    n > Nth[k - 1] /\ \A m \in ends : m > Nth[k - 1] => n <= m
    IN  [k \in 1..Cardinality(ends) |-> SubSeq(path, 1, Nth[k])]

\* the call repeats the previous call, which was recursive and succeeded
MkdirCalledAgain ==
    /\ prev.kind = "mkdir" /\ prev.rc = 0 /\ prev.recursive
    /\ prev.abs_path = op.abs_path

\* C14 (as stated): fsu_mkdir_abs(p, true) where no segment of p exists makes
\* one directory per segment, shallowest first, and returns 0; called again
\* with the same p it returns 0 and issues no fs_mkdir; when the normalized
\* path is an existing file it returns -ENOTDIR and creates nothing.
C14_MkdirRecursiveIdempotent ==
    MkdirDone =>
        LET path == MkdirPath(op)
        IN  /\ (op.recursive /\ \A n \in 1..Len(SegmentPaths(path)) :
                                    ~Exists(op.before, SegmentPaths(path)[n]))
                    => (op.rc = 0 /\ op.created = SegmentPaths(path))
            /\ MkdirCalledAgain
                    => (op.rc = 0 /\ \A n \in 1..Len(op.calls) : op.calls[n] # "mkdir")
            /\ IsFile(op.before, path)
                    => (op.rc = -ENOTDIR /\ op.created = <<>> /\ fs = op.before)

\* C14: what holds of the three cases whatever the released entry reads as:
\* the directories are made shallowest first, and a call on an existing
\* directory or file issues no fs_mkdir and returns 0 or -ENOTDIR.
C14_MkdirCreatesOrLeavesAlone ==
    MkdirDone =>
        LET path == MkdirPath(op)
        IN  /\ (op.recursive /\ \A n \in 1..Len(SegmentPaths(path)) :
                                    ~Exists(op.before, SegmentPaths(path)[n]))
                    => (op.rc = 0 /\ op.created = SegmentPaths(path))
            /\ (MkdirCalledAgain \/ IsFile(op.before, path))
                    => /\ op.rc \in {0, -ENOTDIR}
                       /\ op.calls = <<"stat">> /\ fs = op.before

C14_Witness ==
    /\ MkdirDone /\ MkdirCalledAgain
    /\ Len(SegmentPaths(MkdirPath(op))) = 3
    /\ op.rc = -ENOTDIR

\* fsu_mkdir_abs is past its call of fsu_simplify_path
MkdirSimplified == op.kind = "mkdir" /\ op.pc # "start"

\* C31 as stated: every byte fsu_simplify_path writes when called from
\* fsu_mkdir_abs lies inside the buffer fsu_mkdir_abs supplies: the clearing
\* of FSU_MAX_ABS_PATH_SIZE + 1 bytes and the terminator at index j never
\* touch an index >= the size of that buffer.
C31_SimplifyWritesInsideStaging ==
    MkdirSimplified => (op.high < MkdirPathSize /\ op.spill = "none")

\* C31, as the code behaves: a call that passes the NULL test writes the
\* index FSU_MAX_ABS_PATH_SIZE, one past the last element of the buffer, and
\* no index beyond it; only a call with a NULL path writes nothing outside.
C31_SimplifyWritesOnePastStaging ==
    MkdirSimplified =>
        IF op.abs_path = NULL
        THEN op.high = -1 /\ op.spill = "none"
        ELSE op.high = MkdirPathSize /\ op.spill # "none"

\* a path that normalizes to a short string: fsu_mkdir_abs made its
\* directory after the clearing wrote past the buffer
C31_Witness ==
    /\ MkdirDone /\ op.rc = 0 /\ MkdirPath(op) = <<"/", "a">>
    /\ op.created = << <<"/", "a">> >>
    /\ op.high = MkdirPathSize /\ op.spill = "object"

\* fsu_mkdir_abs has returned after its initial fs_stat succeeded
MkdirFoundDone ==
    /\ op.kind = "mkdir" /\ op.pc = "ret"
    /\ op.calls = <<"stat">> /\ op.last = 0

\* C32 as stated: fsu_mkdir_abs never reads its directory-entry buffer after
\* releasing it; when the initial fs_stat succeeds, the entry type that
\* chooses between 0 and -ENOTDIR is read while the buffer is allocated.
C32_EntryReadWhileAllocated ==
    (op.kind = "mkdir" /\ op.pc = "ret") => op.stale = 0

\* C32, as the code behaves: the buffer is never read after its release on
\* the paths where the initial fs_stat fails; when it succeeds the type is
\* read once, after k_free, and the buffer is released exactly then.
C32_EntryReadOnceAfterFree ==
    (op.kind = "mkdir" /\ op.pc = "ret") =>
        IF MkdirFoundDone
        THEN op.stale = 1 /\ op.entry = "freed"
        ELSE op.stale = 0

\* the path is an existing directory and the released entry read as a file
C32_Witness ==
    /\ MkdirFoundDone /\ IsDir(op.before, MkdirPath(op)) /\ fs = op.before
    /\ op.rc = -ENOTDIR /\ op.stale = 1 /\ op.faults = 0

\* a non-recursive fsu_mkdir_abs has returned for a path that normalized and
\* did not exist, no storage call or allocation having failed otherwise
MkdirFlatDone == MkdirDone /\ ~op.recursive /\ ~Exists(op.before, MkdirPath(op))

\* C25 (as stated): fsu_mkdir_abs(p, false) calls fs_mkdir for the final
\* segment of p only, never for an intermediate segment; when an intermediate
\* segment does not exist that fs_mkdir fails, its error is returned and no
\* directory has been created.
C25_FlatMkdirMakesLastOnly ==
    MkdirFlatDone =>
        LET path == MkdirPath(op)
            segments == SegmentPaths(path)
        IN  /\ op.mkdirs = <<segments[Len(segments)]>>
            /\ ~Exists(op.before, Parent(Canon(path))) =>
                  (op.rc < 0 /\ op.rc = op.last /\ op.created = <<>> /\ fs = op.before)

\* the normalized path still ends with a separator
EndsWithSlash(path) == Len(path) > 1 /\ path[Len(path)] = "/"

\* C25: what holds of a non-recursive call: fs_mkdir is never called for an
\* intermediate segment; for a path that does not end with a separator the
\* claim holds as stated; for one that does, fs_mkdir is not called at all
\* and the error of the initial fs_stat is returned.
C25_FlatMkdirNeverIntermediate ==
    MkdirFlatDone =>
        LET path == MkdirPath(op)
            segments == SegmentPaths(path)
        IN  /\ ~EndsWithSlash(path) =>
                  /\ op.mkdirs = <<segments[Len(segments)]>>
                  /\ ~Exists(op.before, Parent(path)) =>
                        (op.rc < 0 /\ op.rc = op.last /\ op.created = <<>>
                            /\ fs = op.before)
                  /\ IsDir(op.before, Parent(path)) =>
                        (op.rc = 0 /\ op.created = <<path>>)
            /\ EndsWithSlash(path) =>
                  /\ op.mkdirs = <<>> /\ op.calls = <<"stat">>
                  /\ op.rc < 0 /\ op.rc = op.last /\ fs = op.before

\* the parent /a exists, the path is /a/b/, and nothing was made
C25_Witness ==
    /\ MkdirFlatDone /\ EndsWithSlash(MkdirPath(op))
    /\ IsDir(op.before, Parent(Canon(MkdirPath(op))))
    /\ Parent(Canon(MkdirPath(op))) # Root
    /\ op.rc = -ENOENT /\ op.mkdirs = <<>> /\ fs = op.before

(***************************************************************************)
(* The (path, name) wrappers: fsu_write, fsu_append, fsu_delete, fsu_read, *)
(* fsu_get_file_size, fsu_mkdir, fsu_sha256, fsu_crc32                     *)
(***************************************************************************)
WrapKinds == {"write", "append", "delete", "read", "size", "mkdir"} \cup DigestKinds

\* if (path == NULL || name == NULL) return -EPERM;
\* every wrapper has the test but fsu_mkdir
WrapperTestsNull(kind) == kind # "mkdir"

\* r = fsu_build_full_name(...); BREAK_ON_ERROR(r); in fsu_read,
\* fsu_get_file_size and fsu_mkdir; the others cast the result to void
WrapperTestsJoin(kind) == kind \in {"read", "size", "mkdir"}

\* char abs_path[FSU_MAX_ABS_PATH_SIZE];
\* fsu_build_full_name(abs_path, sizeof(abs_path), path, name): the buffer
\* and the value returned
BuildFullName(path, name) ==
    IF path = NULL \/ name = NULL
    THEN [str |-> DirtyBuf(FSU_MAX_ABS_PATH_SIZE), rc |-> -EPERM]
    ELSE snprintk(ZeroBuf(FSU_MAX_ABS_PATH_SIZE), FSU_MAX_ABS_PATH_SIZE, path, name)

\* a name of n characters
LongName(n) == [k \in 1..n |-> "a"]

\* the directory /d and names with which the joined path fits the buffer,
\* fills it to its last byte, and is one and two characters too long
WrapDirs == { <<"/", "d">> }
WrapNames == { <<"a">> } \cup { LongName(FSU_MAX_ABS_PATH_SIZE - n) : n \in 2..4 }

\* the arguments the wrapper passes on, and the locals of the function called
WrapLocals(kind) ==
    CASE kind \in {"write", "append"} -> WaLocals(<<1>>, kind = "append")
      [] kind = "read" -> ReadLocals(0, 1)
      [] kind = "mkdir" -> MkdirLocals(FALSE)
      [] kind \in DigestKinds -> DigestLocals(1)

\* a wrapper up to its call of the function that takes the absolute path, or
\* to its early return; join records the wrapper's arguments and what
\* fsu_build_full_name returned
WrapCall ==
    /\ CanCall("wrap")
    /\ \E kind \in WrapKinds, dir \in WrapDirs \cup {NULL}, name \in WrapNames \cup {NULL} :
          LET built == BuildFullName(dir, name)
              refused == \/ WrapperTestsNull(kind) /\ (dir = NULL \/ name = NULL)
                         \/ WrapperTestsJoin(kind) /\ built.rc < 0
              abs_path == IF refused THEN NULL ELSE CStr(built.str, FSU_MAX_ABS_PATH_SIZE)
              base == OpBase(kind, abs_path)
                      @@ [join |-> [dir |-> dir, name |-> name, rc |-> built.rc]]
              o == IF kind \in {"size", "delete"} THEN base ELSE base @@ WrapLocals(kind)
          IN  op' = IF ~refused THEN o
                    ELSE IF kind = "crc32"
                    THEN [o EXCEPT !.checksum = Zero32, !.rc = -EPERM, !.pc = "ret"]
                    ELSE [o EXCEPT !.rc = -EPERM, !.pc = "ret"]
    /\ script' = Tail(script)
    /\ UNCHANGED <<fs, prev, config>>
    /\ UNCHANGED fsOthers

\* a wrapper has returned
WrapDone == op.pc = "ret" /\ "join" \in DOMAIN op

\* a wrapper has returned from a call with a path and a name
WrapJoinedDone == WrapDone /\ op.join.dir # NULL /\ op.join.name # NULL

\* path "/" name in full
FullName(o) == o.join.dir \o <<"/">> \o o.join.name

\* C33 as stated: when the joined path does not fit the staging buffer
\* (fsu_build_full_name reports a length >= FSU_MAX_ABS_PATH_SIZE) the
\* wrappers return an error without a storage call, and none of them hands
\* the storage a path other than path "/" name.
C33_WrappersRefuseTruncatedPath ==
    WrapJoinedDone =>
        /\ op.join.rc >= FSU_MAX_ABS_PATH_SIZE => (op.rc < 0 /\ op.calls = <<>>)
        /\ op.calls # <<>> => op.abs_path = FullName(op)

\* C33, as the code behaves: with a path or a name missing the wrappers
\* return -EPERM with no storage call; otherwise they call the function that
\* takes the absolute path with the first FSU_MAX_ABS_PATH_SIZE - 1
\* characters of path "/" name, which is the whole of it only when it fits.
C33_WrappersUseTruncatedPath ==
    WrapDone =>
        IF op.join.dir = NULL \/ op.join.name = NULL
        THEN op.rc = -EPERM /\ op.calls = <<>> /\ fs = op.before
        ELSE /\ op.join.rc = Len(FullName(op))
             /\ op.abs_path = SubSeq(FullName(op), 1,
                                     Min(Len(FullName(op)), FSU_MAX_ABS_PATH_SIZE - 1))
             /\ (op.abs_path = FullName(op)) <=> (op.join.rc < FSU_MAX_ABS_PATH_SIZE)

\* fsu_delete with a name one character too long removed the file whose name
\* is the truncated one
C33_Witness ==
    /\ WrapJoinedDone /\ op.kind = "delete" /\ op.rc = 0
    /\ op.join.rc = FSU_MAX_ABS_PATH_SIZE
    /\ op.abs_path # FullName(op)
    /\ IsFile(op.before, op.abs_path) /\ ~Exists(fs, op.abs_path)

(***************************************************************************)
(* Claims about failed calls (SpecFs)                                      *)
(***************************************************************************)
\* the call returns an error: a negative result, or no entries from fsu_find
ErrorReturn(o) == IF o.kind = "find" THEN o.results.null ELSE o.rc < 0

FailedCall(kinds) == op.pc = "ret" /\ op.kind \in kinds /\ ErrorReturn(op)

\* C7 as stated: when a write, append, mkdir, delete, read, size, digest or
\* find returns an error, the namespace is as it was when the call was made.
C7_FailedCallLeavesNamespace ==
    FailedCall({"write", "append", "mkdir", "delete", "read", "size", "find"} \cup DigestKinds)
        => fs = op.before

\* C7, for the calls that have no step to undo: when a delete, read, size,
\* digest or find returns an error, the namespace is as it was when the call
\* was made.
C7_FailedQueryLeavesNamespace ==
    FailedCall({"delete", "read", "size", "find"} \cup DigestKinds) => fs = op.before

\* a checksum that failed on a short read, after it had opened the file and
\* taken a chunk of it
C7_Witness ==
    /\ FailedCall({"crc32"}) /\ op.rc = -EIO /\ op.faults = 0
    /\ op.file_pos > 0
    /\ fs = op.before

(***************************************************************************)
(* LED driver: lcz_led.c, built without CONFIG_MCUBOOT and without         *)
(* CONFIG_LCZ_LED_CUSTOM_ON_OFF, with one LED; led.drv tells whether       *)
(* CONFIG_LCZ_LED_DRIVER_MUTEX or CONFIG_LCZ_LED_DRIVER_ATOMIC is set.     *)
(* Three contexts run: the thread that calls the API, the timer interrupt  *)
(* (led_timer_callback) and the system work queue                          *)
(* (system_workq_led_timer_handler). A timer is the milliseconds it was    *)
(* started with, 0 when it is stopped or has expired.                      *)
(***************************************************************************)
\* #define REPEAT_INDEFINITELY (-1) in lcz_led.h
REPEAT_INDEFINITELY == -1

MINIMUM_ON_TIME_MSEC == 1
MINIMUM_OFF_TIME_MSEC == 1

\* static struct led led[CONFIG_LCZ_NUMBER_OF_LEDS];
CONFIG_LCZ_NUMBER_OF_LEDS == 1

\* enum led_state { ON = true, OFF = false };
ON == TRUE
OFF == FALSE

\* enum led_blink_state { BLINK = true, DONT_BLINK = false };
BLINK == TRUE
DONT_BLINK == FALSE

\* the indices a caller passes: those of the LEDs and one past them
LedIndexes == 0..CONFIG_LCZ_NUMBER_OF_LEDS

\* the patterns a caller passes
LedPatterns ==
    [on_time : {0}, off_time : {2}, repeat_count : (0..MaxRepeat) \cup {REPEAT_INDEFINITELY}]

\* the pattern of a call that passes none
LedNoPattern == [on_time |-> 0, off_time |-> 2, repeat_count |-> 0]

LedApiIdle == [pc |-> "idle"]
LedNoCall == [call |-> "none", r |-> 0, raced |-> FALSE, repeat_count |-> 0]

\* the driver after lcz_led_init: the LED is off, its timer stopped, no
\* pattern-complete function registered
LedInit(drv) ==
    [drv |-> drv,
     state |-> OFF, pattern_busy |-> FALSE,
     pattern |-> [on_time |-> 0, off_time |-> 0, repeat_count |-> 0],
     timer |-> 0,
     work |-> "idle",        \* struct k_work work: idle or pending in the queue
     owner |-> "none",       \* who holds led_mutex, or led[i].locked
     function |-> FALSE,     \* pattern_complete_function != NULL
     api |-> LedApiIdle,     \* the API call in progress
     last |-> LedNoCall,     \* the API call that returned last
     calls |-> 0,            \* the API calls made so far
     wq |-> "idle",          \* the work queue thread: idle, or in the handler
     \* what the LED did since lcz_led_blink last started a pattern:
     ons |-> 0, offs |-> 0,  \* calls of turn_on and of turn_off
     switched |-> "none",    \* the last of them
     alternated |-> TRUE,    \* they alternated, turn_on first
     decs |-> 0]             \* decrements of pattern.repeat_count

LedIdle == LedInit("mutex")

\* gpio_pin_set(..., ON); pLed->state = ON;
turn_on(l) ==
    [l EXCEPT !.state = ON,
              !.ons = Min(@ + 1, MaxSwitches),
              !.alternated = @ /\ l.switched # "on",
              !.switched = "on"]

\* gpio_pin_set(..., OFF); pLed->state = OFF;
turn_off(l) ==
    [l EXCEPT !.state = OFF,
              !.offs = Min(@ + 1, MaxSwitches),
              !.alternated = @ /\ l.switched = "on",
              !.switched = "off"]

\* static void change_state(struct led *pLed, bool state, bool blink)
change_state(l, state, blink) ==
    LET s == IF state = ON THEN turn_on(l) ELSE turn_off(l)
    IN  IF ~blink
        THEN [s EXCEPT !.pattern.repeat_count = 0, !.timer = 0]
        ELSE IF state = ON
        THEN [s EXCEPT !.timer = s.pattern.on_time]
        ELSE [s EXCEPT !.timer = s.pattern.off_time]

\* memcpy(&pLed->pattern, pPattern, ...); on_time = MAX(on_time, MINIMUM_ON_TIME_MSEC);
\* off_time = MAX(off_time, MINIMUM_OFF_TIME_MSEC);
set_pattern(l, pPattern) ==
    [l EXCEPT !.pattern = [pPattern EXCEPT
                              !.on_time = Max(@, MINIMUM_ON_TIME_MSEC),
                              !.off_time = Max(@, MINIMUM_OFF_TIME_MSEC)]]

\* static bool valid_index(led_index_t index): every LED is initialized
valid_index(index) == index >= 0 /\ index < CONFIG_LCZ_NUMBER_OF_LEDS

DecrementsAlways(l) == TRUE

\* if (pLed->pattern.repeat_count != REPEAT_INDEFINITELY) pLed->pattern.repeat_count -= 1;
Decrements(l) == l.pattern.repeat_count # REPEAT_INDEFINITELY

\* system_workq_led_timer_handler between its led_lock and its led_unlock:
\* if (repeat_count == 0) { change_state(OFF, DONT_BLINK);
\*   if (pattern_complete_function != NULL) { pattern_busy = false; function(); } }
\* else if (state == ON) change_state(OFF, BLINK);
\* else { decrement unless indefinite; change_state(ON, BLINK); }
LedTimerHandler(l) ==
    IF l.pattern.repeat_count = 0
    THEN LET s == change_state(l, OFF, DONT_BLINK)
         IN  IF s.function THEN [s EXCEPT !.pattern_busy = FALSE] ELSE s
    ELSE IF l.state = ON THEN change_state(l, OFF, BLINK)
    ELSE IF Decrements(l)
         THEN change_state([l EXCEPT !.pattern.repeat_count = @ - 1,
                                     !.decs = Min(@ + 1, MaxSwitches)],
                           ON, BLINK)
         ELSE change_state(l, ON, BLINK)

\* lcz_led_blink between its led_lock and its led_unlock:
\* pattern_busy = true; set_pattern(); change_state(ON, BLINK);
LedBlinkBody(l, pPattern) ==
    change_state(set_pattern([l EXCEPT !.pattern_busy = TRUE,
                                       !.ons = 0, !.offs = 0, !.decs = 0,
                                       !.switched = "none", !.alternated = TRUE],
                             pPattern),
                 ON, BLINK)

\* an API function between its led_lock and its led_unlock
LedApiBody(l) ==
    CASE l.api.call = "turn_on" -> change_state(l, ON, DONT_BLINK)
      [] l.api.call = "turn_off" -> change_state(l, OFF, DONT_BLINK)
      [] l.api.call = "blink" -> LedBlinkBody(l, l.api.pattern)
      [] l.api.call = "register" -> [l EXCEPT !.function = l.api.function]

\* the API function returns r; raced tells whether an expiry of the timer
\* was still to be handled when the function ran
LedReturned(l, r, raced) ==
    [l EXCEPT !.api = LedApiIdle,
              !.last = [call |-> l.api.call, r |-> r, raced |-> raced,
                        repeat_count |-> IF l.api.call = "blink"
                                         THEN l.api.pattern.repeat_count ELSE 0],
              !.calls = @ + 1]

\* an expiry of the timer is queued, or its handler has started
ExpiryInHand(l) == l.work = "pending" \/ l.wq # "idle"

\* lcz_led_turn_on, lcz_led_turn_off, lcz_led_blink or
\* lcz_led_register_pattern_complete_function is called
LedApiCall ==
    /\ led.api.pc = "idle" /\ led.calls < MaxLedCalls
    /\ \E call \in {"turn_on", "turn_off", "blink", "register"}, index \in LedIndexes,
          pPattern \in LedPatterns, null \in BOOLEAN, flag \in BOOLEAN :
          /\ call # "blink" => (pPattern = LedNoPattern /\ ~null)
          /\ null => (pPattern = LedNoPattern /\ ~flag)
          /\ call \in {"turn_on", "turn_off"} => ~flag
          /\ led' = [led EXCEPT !.api = [pc |-> IF call = "blink" THEN "check" ELSE "lock",
                                        call |-> call, index |-> index,
                                        pattern |-> pPattern,
                                        null |-> null,    \* pPattern == NULL
                                        force |-> flag, function |-> flag]]
    /\ UNCHANGED ledOthers

\* led[index].state as lcz_led_blink reads it before led_lock has looked at
\* the index: for an index past the array, whatever lies there
LedStateRead(l, index) == IF valid_index(index) THEN {l.state} ELSE BOOLEAN

\* if (pPattern != NULL) { if (led[index].state == ON && !force) return -EBUSY; ... }
\* else r = -EINVAL;
LedBlinkCheck ==
    /\ led.api.pc = "check"
    /\ \/ /\ led.api.null
          /\ led' = LedReturned(led, -EINVAL, ExpiryInHand(led))
       \/ /\ ~led.api.null
          /\ \E state \in LedStateRead(led, led.api.index) :
                led' = IF state = ON /\ ~led.api.force
                       THEN LedReturned(led, -EBUSY, ExpiryInHand(led))
                       ELSE [led EXCEPT !.api.pc = "lock"]
    /\ UNCHANGED ledOthers

\* TAKE_MUTEX(led_mutex) waits: k_mutex_lock(&led_mutex, K_FOREVER)
LockWaits(l, index) == valid_index(index) /\ l.drv = "mutex" /\ l.owner # "none"

\* static int led_lock(led_index_t index), when it does not wait: 0 when the
\* lock is taken, or the error
led_lock(l, index) ==
    IF ~valid_index(index) THEN -EINVAL
    ELSE IF l.owner = "none" THEN 0
    ELSE -ENOLCK

\* int r = led_lock(index); in an API function
LedApiLock ==
    /\ led.api.pc = "lock"
    /\ ~LockWaits(led, led.api.index)
    /\ LET r == led_lock(led, led.api.index)
       IN  led' = IF r = 0 THEN [led EXCEPT !.owner = "api", !.api.pc = "body"]
                 ELSE LedReturned(led, r, ExpiryInHand(led))
    /\ UNCHANGED ledOthers

\* static void led_unlock(led_index_t index)
led_unlock(l) == [l EXCEPT !.owner = "none"]

\* the locked part of an API function, led_unlock(index) and return r;
LedApiRun ==
    /\ led.api.pc = "body"
    /\ led' = LedReturned(led_unlock(LedApiBody(led)), 0, ExpiryInHand(led))
    /\ UNCHANGED ledOthers

\* led_timer_callback: the timer expired; k_work_submit(&pLed->work);
LedTimerCallback ==
    /\ led.timer > 0
    /\ led' = [led EXCEPT !.timer = 0, !.work = "pending"]
    /\ UNCHANGED ledOthers

\* the system work queue takes the work item and calls its handler
WorkqTake ==
    /\ led.work = "pending" /\ led.wq = "idle"
    /\ led' = [led EXCEPT !.work = "idle", !.wq = "lock"]
    /\ UNCHANGED ledOthers

\* int r = led_lock(pLed->index); in system_workq_led_timer_handler
WorkqLock ==
    /\ led.wq = "lock"
    /\ ~LockWaits(led, 0)
    /\ LET r == led_lock(led, 0)
       IN  led' = IF r = 0 THEN [led EXCEPT !.owner = "workq", !.wq = "body"]
                 ELSE [led EXCEPT !.wq = "idle"]
    /\ UNCHANGED ledOthers

\* the locked part of system_workq_led_timer_handler and led_unlock
WorkqRun ==
    /\ led.wq = "body"
    /\ led' = [led_unlock(LedTimerHandler(led)) EXCEPT !.wq = "idle"]
    /\ UNCHANGED ledOthers

\* bool lcz_led_pattern_busy(led_index_t index)
lcz_led_pattern_busy(l, index) == IF ~valid_index(index) THEN FALSE ELSE l.pattern_busy

(***************************************************************************)
(* Claims about heap buffers (SpecHeap)                                    *)
(***************************************************************************)
\* the pointers to heap blocks a call holds in its locals
HeapPointers == {"entry", "pBuffer", "pCtx", "pEntries"}

\* a pointer that is NULL, or whose block has been released once
NothingHeld(ptr) == ptr \in {"none", "null", "freed"}

\* C39: every heap buffer fsu_find, fsu_read_abs_block, fsu_get_file_size_abs,
\* the digests and fsu_mkdir_abs allocate is released exactly once before the
\* call returns, on every exit path; the array fsu_find returns is released
\* exactly once by the caller's fsu_free_found, which leaves a NULL result
\* alone; so find, release, find again leaves no block allocated and releases
\* nothing twice.
C39_HeapBuffersReleasedOnce ==
    (op.pc = "ret") =>
        /\ \A p \in HeapPointers \cap DOMAIN op : NothingHeld(op[p])
        /\ op.kind = "free_found" =>
              op.pEntries = (IF prev.results.null THEN "null" ELSE "freed")

\* the second release of find, release, find, release has freed the array
\* the second fsu_find returned
C39_Witness ==
    /\ op.pc = "ret" /\ op.kind = "free_found" /\ script = <<>>
    /\ ~prev.results.null /\ op.pEntries = "freed"

(***************************************************************************)
(* Claims about the mount gate under fair scheduling (SpecMountFair)       *)
(***************************************************************************)
\* a call about to return gave the mutex up once, whichever path it took,
\* and a caller outside fsu_lfs_mount does not hold it
MountLockReleased ==
    \A t \in Threads :
        /\ mount.pc[t] = "ret" =>
              (mount.unlocks[t] = 1 /\ mount.lfs_init_mutex # t)
        /\ mount.pc[t] \in {"idle", "lock"} => mount.lfs_init_mutex # t
        /\ mount.pc[t] \in {"check", "fs_mount", "unlock"} =>
              (mount.unlocks[t] = 0 /\ mount.lfs_init_mutex = t)

\* C36: every fsu_lfs_mount call releases lfs_init_mutex exactly once before
\* it returns, on the already-mounted, the mount-success and the mount-failure
\* path; so, fs_mount returning and the lock being fair, every caller waiting
\* for the lock eventually acquires it and every call eventually returns,
\* the lock never being held after the return.
C36_MountLockReleasedOnceAndCallsReturn ==
    /\ []MountLockReleased
    /\ \A t \in Threads :
          /\ (mount.pc[t] = "lock") ~> (mount.pc[t] = "check")
          /\ (mount.pc[t] = "check") ~> (mount.pc[t] = "ret")
          /\ (mount.pc[t] = "ret") ~> (mount.pc[t] = "idle")

\* a call whose fs_mount failed is about to return, the mutex released,
\* while the other caller waits for it
C36_Witness ==
    \E t, u \in Threads :
        /\ t # u
        /\ mount.pc[t] = "ret" /\ mount.attempted[t] /\ mount.rc[t] = -EIO
        /\ mount.unlocks[t] = 1 /\ mount.lfs_init_mutex = NoOwner
        /\ mount.pc[u] = "lock"

(***************************************************************************)
(* Claims about the LED driver (SpecLed, SpecLedFair)                      *)
(***************************************************************************)
\* lcz_led_turn_on returned 0 and no LED API call has been made since
TurnedOn == led.api.pc = "idle" /\ led.last.call = "turn_on" /\ led.last.r = 0

\* C34 as stated: once lcz_led_turn_on(index) has returned 0 and no further
\* LED API call is made, the LED is ON in every later state, whatever the
\* timer callback and the work-queue handler of an earlier blink pattern do.
C34_TurnOnStaysOn == TurnedOn => led.state = ON

\* C34, as the code behaves: after such a call the timer is stopped and the
\* repeat count is 0 until the handler runs; the LED stays ON when no expiry
\* of the timer was queued or being handled while lcz_led_turn_on ran.
C34_TurnOnStaysOnUnlessExpiryInHand ==
    TurnedOn =>
        /\ led.timer = 0
        /\ ~led.last.raced => (led.state = ON /\ ~ExpiryInHand(led)
                                /\ led.pattern.repeat_count = 0)

\* lcz_led_turn_on cancelled a pattern none of whose expiries was in hand
C34_Witness ==
    /\ TurnedOn /\ ~led.last.raced /\ led.calls = 2
    /\ led.pattern_busy /\ led.ons = 2 /\ led.offs = 0
    /\ led.state = ON /\ led.timer = 0

\* lcz_led_blink returned 0 for a pattern with a finite repeat_count and no
\* LED API call is made any more
BlinkStarted ==
    /\ led.api.pc = "idle" /\ led.last.call = "blink" /\ led.last.r = 0
    /\ led.last.repeat_count # REPEAT_INDEFINITELY
    /\ led.calls = MaxLedCalls

\* C35 as stated: after lcz_led_blink returned 0 with a finite repeat_count
\* and with no further LED API call, the pattern eventually completes: the
\* LED is OFF, its timer is stopped and lcz_led_pattern_busy returns false,
\* whether or not a pattern-complete function has been registered.
C35_BlinkCompletesNotBusy ==
    BlinkStarted ~>
        (led.state = OFF /\ led.timer = 0 /\ ~lcz_led_pattern_busy(led, 0))

\* the pattern is over: the LED is OFF, nothing of it is left to run
PatternOver ==
    /\ led.state = OFF /\ led.timer = 0 /\ ~ExpiryInHand(led)
    /\ led.pattern.repeat_count = 0

\* C35, as the code behaves: such a pattern eventually completes with the LED
\* OFF and the timer stopped; lcz_led_pattern_busy then returns false exactly
\* when a pattern-complete function is registered.
C35_BlinkCompletesBusyWithoutFunction ==
    BlinkStarted ~>
        (PatternOver /\ (lcz_led_pattern_busy(led, 0) <=> ~led.function))

\* a pattern of two repeats completed with a function registered
C35_Witness ==
    /\ BlinkStarted /\ PatternOver /\ led.function
    /\ led.last.repeat_count = 2 /\ led.ons = 3
    /\ ~lcz_led_pattern_busy(led, 0)

\* the pattern the last LED API call started has been left to itself: no call
\* was made since, and no expiry of an earlier pattern was queued or being
\* handled when it started
Undisturbed ==
    /\ led.api.pc = "idle" /\ led.last.call = "blink" /\ led.last.r = 0
    /\ ~led.last.raced

\* what holds at each moment of an undisturbed pattern of N repeats
PatternCounts ==
    Undisturbed =>
        /\ led.alternated
        /\ led.ons >= 1
        /\ IF led.last.repeat_count = REPEAT_INDEFINITELY
           THEN /\ led.decs = 0 /\ led.pattern.repeat_count = REPEAT_INDEFINITELY
                /\ (led.timer > 0 \/ ExpiryInHand(led))
           ELSE /\ led.offs \in {led.ons - 1, led.ons}
                /\ led.state = (IF led.offs < led.ons THEN ON ELSE OFF)
                /\ led.decs = led.ons - 1
                /\ led.pattern.repeat_count \in {led.last.repeat_count - led.decs, 0}
                /\ led.ons <= led.last.repeat_count + 1
                /\ (led.timer = 0 /\ ~ExpiryInHand(led)) =>
                        /\ led.ons = led.last.repeat_count + 1
                        /\ led.offs = led.ons
                        /\ led.state = OFF /\ led.pattern.repeat_count = 0

\* an undisturbed pattern that repeats indefinitely, no call being made any more
BlinksOn ==
    /\ Undisturbed /\ led.last.repeat_count = REPEAT_INDEFINITELY
    /\ led.calls = MaxLedCalls

Configs == [FSU_REWRITE_SIZE_CHECK : BOOLEAN, FSU_HASH : {TRUE}, FSU_CHECKSUM : {TRUE}]

\* CONFIG_FSU_HASH and CONFIG_FSU_CHECKSUM on, CONFIG_FSU_REWRITE_SIZE_CHECK off
DefaultConfig == [FSU_REWRITE_SIZE_CHECK |-> FALSE, FSU_HASH |-> TRUE, FSU_CHECKSUM |-> TRUE]

\* the build configurations: CONFIG_FSU_HASH and CONFIG_FSU_CHECKSUM on or off
DigestConfigs == [FSU_REWRITE_SIZE_CHECK : {FALSE}, FSU_HASH : BOOLEAN, FSU_CHECKSUM : BOOLEAN]

\* a namespace holding the directory /d and, under each of the given paths, a file
FilesNamespace(files) ==
    [q \in {Root, <<"/", "d">>} \cup DOMAIN files |->
        IF q \in DOMAIN files THEN FileNode(files[q]) ELSE DirNode]

StorageIdle ==
    /\ fs = FilesNamespace(<<>>)
    /\ op = OpIdle /\ prev = OpIdle /\ script = <<>>
    /\ config = DefaultConfig

Init == simplify = SimplifyIdle /\ mount = MountIdle /\ led = LedIdle /\ StorageIdle

\* what the caller does: one call, or a write followed by a read or a size query
FileScripts ==
    { <<"write">>, <<"append">>, <<"read">>, <<"size">>, <<"delete">>,
      <<"write", "read">>, <<"write", "size">> }

\* one file /a, absent or of any content
InitFile ==
    /\ simplify = SimplifyIdle /\ mount = MountIdle /\ led = LedIdle
    /\ \/ fs = FilesNamespace(<<>>)
       \/ \E data \in DataValues : fs = FilesNamespace([q \in {<<"/", "a">>} |-> data])
    /\ op = OpIdle /\ prev = OpIdle /\ script \in FileScripts
    /\ config \in Configs

NextFile ==
    \/ WaCall \/ WaOpen \/ WaTruncate \/ WaWrite \/ WaClose \/ WaSizeCheck
    \/ ReadCall \/ ReadStat \/ ReadOpen \/ ReadSeek \/ ReadRead \/ ReadClose \/ ReadFree
    \/ SizeCall \/ SizeStat
    \/ DeleteCall \/ DeleteUnlink
    \/ OpReturn

SpecFile == InitFile /\ [][NextFile]_vars

\* the namespaces fsu_mkdir_abs is called on: the directories /a and /a/b
\* absent, present, or a file in their place
MkdirNamespaces ==
    { Namespace({}, <<>>),
      Namespace({<<"/", "a">>}, <<>>),
      Namespace({<<"/", "a">>, <<"/", "a", "/", "b">>}, <<>>),
      Namespace({}, [q \in {<<"/", "a">>} |-> <<1>>]),
      Namespace({<<"/", "a">>}, [q \in {<<"/", "a", "/", "b">>} |-> <<1>>]) }

InitMkdir ==
    /\ simplify = SimplifyIdle /\ mount = MountIdle /\ led = LedIdle
    /\ fs \in MkdirNamespaces
    /\ op = OpIdle /\ prev = OpIdle
    /\ script \in {<<"mkdir">>, <<"mkdir", "mkdir">>}
    /\ config = DefaultConfig

NextMkdir == MkdirCall \/ MkdirSimplify \/ MkdirStat \/ MkdirWalk \/ MkdirFree \/ OpReturn

SpecMkdir == InitMkdir /\ [][NextMkdir]_vars

\* the directory /d holding any of the files a and ab and the directory b
FindNamespaces ==
    { Namespace({<<"/", "d">>} \cup dirs, [q \in files |-> <<1>>]) :
        dirs \in SUBSET {<<"/", "d", "/", "b">>},
        files \in SUBSET {<<"/", "d", "/", "a">>, <<"/", "d", "/", "a", "b">>} }

InitFind ==
    /\ simplify = SimplifyIdle /\ mount = MountIdle /\ led = LedIdle
    /\ fs \in FindNamespaces
    /\ op = OpIdle /\ prev = OpIdle /\ script = <<"find">>
    /\ config = DefaultConfig

NextFind ==
    \/ FindCall \/ FindOpen \/ FindCount \/ FindClose \/ FindAlloc \/ FindFill
    \/ FindClose2 \/ ConcurrentUnlink \/ OpReturn

SpecFind == InitFind /\ [][NextFind]_vars

\* a step of fsu_find in which no storage call and no allocation fails
FindRuns ==
    /\ FindOpen \/ FindCount \/ FindClose \/ FindAlloc \/ FindFill \/ FindClose2
    /\ op'.faults = op.faults

\* fsu_find runs synchronously on its caller's thread: a call that can take
\* a step takes it; the storage is not obliged to fail, nor another thread
\* to unlink
SpecFindFair == SpecFind /\ WF_vars(FindRuns) /\ WF_vars(OpReturn)

\* one file /a, absent or of any content; one digest call
InitDigest ==
    /\ simplify = SimplifyIdle /\ mount = MountIdle /\ led = LedIdle
    /\ \/ fs = FilesNamespace(<<>>)
       \/ \E data \in DataValues : fs = FilesNamespace([q \in {<<"/", "a">>} |-> data])
    /\ op = OpIdle /\ prev = OpIdle
    /\ script \in {<<kind>> : kind \in DigestKinds}
    /\ config \in DigestConfigs

NextDigest ==
    \/ DigestCall \/ DigestOpen \/ DigestAlloc \/ DigestChunk \/ DigestFinish
    \/ DigestClose \/ OpReturn

SpecDigest == InitDigest /\ [][NextDigest]_vars

\* one call of any operation, on any of the namespaces above
FsScripts ==
    { <<kind>> : kind \in {"write", "append", "read", "size", "delete", "mkdir", "find"}
                          \cup DigestKinds }

InitFs ==
    /\ simplify = SimplifyIdle /\ mount = MountIdle /\ led = LedIdle
    /\ fs \in MkdirNamespaces \cup FindNamespaces
              \cup {FilesNamespace([q \in {<<"/", "a">>} |-> data]) : data \in DataValues}
    /\ op = OpIdle /\ prev = OpIdle /\ script \in FsScripts
    /\ config \in Configs

NextFs ==
    \/ WaCall \/ WaOpen \/ WaTruncate \/ WaWrite \/ WaClose \/ WaSizeCheck
    \/ ReadCall \/ ReadStat \/ ReadOpen \/ ReadSeek \/ ReadRead \/ ReadClose \/ ReadFree
    \/ SizeCall \/ SizeStat
    \/ DeleteCall \/ DeleteUnlink
    \/ MkdirCall \/ MkdirSimplify \/ MkdirStat \/ MkdirWalk \/ MkdirFree
    \/ FindCall \/ FindOpen \/ FindCount \/ FindClose \/ FindAlloc \/ FindFill \/ FindClose2
    \/ DigestCall \/ DigestOpen \/ DigestAlloc \/ DigestChunk \/ DigestFinish \/ DigestClose
    \/ OpReturn

SpecFs == InitFs /\ [][NextFs]_vars

\* one call of an operation that allocates, or find, release, find, release
HeapScripts ==
    { <<kind>> : kind \in {"read", "size", "mkdir", "find"} \cup DigestKinds }
    \cup { <<"find", "free_found", "find", "free_found">> }

InitHeap ==
    /\ simplify = SimplifyIdle /\ mount = MountIdle /\ led = LedIdle
    /\ fs \in MkdirNamespaces \cup FindNamespaces
              \cup {FilesNamespace([q \in {<<"/", "a">>} |-> data]) : data \in DataValues}
    /\ op = OpIdle /\ prev = OpIdle /\ script \in HeapScripts
    /\ config \in Configs

NextHeap ==
    \/ ReadCall \/ ReadStat \/ ReadOpen \/ ReadSeek \/ ReadRead \/ ReadClose \/ ReadFree
    \/ SizeCall \/ SizeStat
    \/ MkdirCall \/ MkdirSimplify \/ MkdirStat \/ MkdirWalk \/ MkdirFree
    \/ FindCall \/ FindOpen \/ FindCount \/ FindClose \/ FindAlloc \/ FindFill \/ FindClose2
    \/ FreeFoundCall
    \/ DigestCall \/ DigestOpen \/ DigestAlloc \/ DigestChunk \/ DigestFinish \/ DigestClose
    \/ OpReturn

SpecHeap == InitHeap /\ [][NextHeap]_vars

\* the directory /d holding any of the files a, ab and b
EntriesNamespaces ==
    { Namespace({<<"/", "d">>}, [q \in files |-> <<1>>]) :
        files \in SUBSET {<<"/", "d", "/", "a">>, <<"/", "d", "/", "a", "b">>,
                          <<"/", "d", "/", "b">>} }
    \cup FindNamespaces

InitEntries ==
    /\ simplify = SimplifyIdle /\ mount = MountIdle /\ led = LedIdle
    /\ fs \in EntriesNamespaces
    /\ op = OpIdle /\ prev = OpIdle
    /\ script \in {<<"delete_files">>, <<"single_entry">>}
    /\ config = DefaultConfig

NextEntries ==
    \/ DeleteFilesCall \/ DeleteFilesFind \/ DeleteFilesFound \/ DeleteFilesUnlink
    \/ DeleteFilesFree
    \/ SingleEntryCall \/ SingleEntryFind \/ SingleEntryFound
    \/ FindOpen \/ FindCount \/ FindClose \/ FindAlloc \/ FindFill \/ FindClose2
    \/ OpReturn

SpecEntries == InitEntries /\ [][NextEntries]_vars

InitJoin ==
    /\ simplify = SimplifyIdle /\ mount = MountIdle /\ led = LedIdle
    /\ fs = FilesNamespace(<<>>)
    /\ op = OpIdle /\ prev = OpIdle /\ script = <<"build_full_name">>
    /\ config = DefaultConfig

NextJoin == BuildCall \/ BuildCheck \/ BuildPrint \/ OpReturn

SpecJoin == InitJoin /\ [][NextJoin]_vars

\* the directory /d, empty or holding the file whose name is the longest
\* that fits the staging buffer
WrapNamespaces ==
    { FilesNamespace(<<>>),
      FilesNamespace([q \in {<<"/", "d", "/">> \o LongName(FSU_MAX_ABS_PATH_SIZE - 4)}
                         |-> <<1>>]) }

InitWrap ==
    /\ simplify = SimplifyIdle /\ mount = MountIdle /\ led = LedIdle
    /\ fs \in WrapNamespaces
    /\ op = OpIdle /\ prev = OpIdle /\ script = <<"wrap">>
    /\ config \in Configs

NextWrap ==
    \/ WrapCall
    \/ WaOpen \/ WaTruncate \/ WaWrite \/ WaClose \/ WaSizeCheck
    \/ ReadStat \/ ReadOpen \/ ReadRead \/ ReadClose \/ ReadFree
    \/ SizeStat \/ DeleteUnlink
    \/ MkdirSimplify \/ MkdirStat \/ MkdirWalk \/ MkdirFree
    \/ DigestOpen \/ DigestAlloc \/ DigestChunk \/ DigestFinish \/ DigestClose
    \/ OpReturn

SpecWrap == InitWrap /\ [][NextWrap]_vars

\* the driver after lcz_led_init, built with either lock
InitLed ==
    /\ simplify = SimplifyIdle /\ mount = MountIdle /\ StorageIdle
    /\ led \in {LedInit(drv) : drv \in {"mutex", "atomic"}}

NextLed ==
    \/ LedApiCall \/ LedBlinkCheck \/ LedApiLock \/ LedApiRun
    \/ LedTimerCallback \/ WorkqTake \/ WorkqLock \/ WorkqRun

SpecLed == InitLed /\ [][NextLed]_vars

\* a call in progress runs on, a running timer expires and the system work
\* queue handles what it holds; the caller is not obliged to call
LedRuns ==
    LedBlinkCheck \/ LedApiLock \/ LedApiRun \/ WorkqTake \/ WorkqLock \/ WorkqRun

SpecLedFair == SpecLed /\ WF_vars(LedRuns) /\ WF_vars(LedTimerCallback)

NextPath == SimplifyCall \/ SimplifyStep

SpecPath == Init /\ [][NextPath]_vars

NextMount ==
    \E t \in Threads :
        \/ MountCall(t)
        \/ MountLock(t)
        \/ MountCheck(t)
        \/ MountFsMount(t)
        \/ MountUnlock(t)
        \/ MountReturn(t)

SpecMount == Init /\ [][NextMount]_vars

\* a call inside fsu_lfs_mount keeps running, fs_mount returns, and
\* k_mutex_lock serves every waiter in the end
SpecMountFair ==
    /\ SpecMount
    /\ \A t \in Threads :
          /\ WF_vars(MountCheck(t) \/ MountFsMount(t) \/ MountUnlock(t) \/ MountReturn(t))
          /\ SF_vars(MountLock(t))

Next == NextPath \/ NextMount \/ NextFile

Spec == Init /\ [][Next]_vars

====
